---- MODULE Spec2Model ----
(***************************************************************************)
(* The Resharder of go/vt/vtctl/workflow (carried in                        *)
(* src/go/vt/vttablet/tabletserver/tabletenv/env.go, lines 93-435):         *)
(* buildResharder, validateTargets, readRefStreams, blsIsReference,         *)
(* identifyRuleType, copySchema, createStreams, startStreams and forAll.    *)
(*                                                                         *)
(* A shard has one primary tablet; the tablet's _vt.vreplication table is   *)
(* catalog[shard], a sequence of rows in insertion order.  The `source`     *)
(* column holds a BinlogSource as text; the model keeps whether the text    *)
(* parses and the message it denotes.  A Go map is a set of entries with    *)
(* distinct keys.                                                           *)
(* Every goroutine that forAll starts is a task with its own position; the  *)
(* tasks of one forAll interleave freely.                                   *)
(***************************************************************************)
EXTENDS Naturals, Sequences, FiniteSets, TLC

\* ------------------------------------------------------------------ bounds
\* Rows pre-existing on all the source primaries together.
MaxSourceRows == 3
\* Rows pre-existing on all the target primaries together.
MaxTargetRows == 1
\* Topology lookups and tablet RPCs that fail in one behaviour.
MaxFaults == 1
\* Reshard commands issued, one after the other, with the same arguments.
NumInvocations == 2

Invocations == 1..NumInvocations

\* ------------------------------------------------------------ plain values
NoErr == "ok"

Keyspace == "ks"
Workflow == "reshard_wf"
DbName == "vt_ks"
ForeignDbName == "vt_other"
Cell == "cellA"
TabletTypes == "replica"
OnDDL == "IGNORE"
StopAfterCopy == FALSE
DeferSecondaryKeys == FALSE

\* The error values the resharder produces (the text before the first
\* format verb of each message).
ErrGetShard == "GetShard failed"
ErrGetTablet == "GetTablet failed"
ErrSourceNotServing == "source shard is not in serving state"
ErrTargetServing == "target shard is in serving state"
ErrValidateForReshard == "ValidateForReshard"
ErrGetVSchema == "GetVSchema"
ErrExec == "VReplicationExec"
ErrStreamsExist == "some streams already exist in the target shards, please clean them up and retry the command"
ErrNoWorkflow == "VReplication streams must have named workflows for migration"
ErrUnmarshal == "prototext.Unmarshal"
ErrMix == "blsIsReference: cannot reshard streams with a mix of reference and sharded tables"
ErrNoTable == "blsIsReference: table not found in vschema"
ErrMismatchKey == "streams are mismatched across source shards for workflow"
ErrMismatchLeft == "streams are mismatched across source shards"
ErrCopySchema == "CopySchemaShard failed"

StreamTypeUnknown == "unknown"
StreamTypeSharded == "sharded"
StreamTypeReference == "reference"
TypeReference == "reference"
TypeSharded == ""

\* ---------------------------------------------------------------- sequences
Range(s) == {s[k] : k \in DOMAIN s}

RECURSIVE SeqFromSet(_)
\* The elements of a finite set of naturals, in increasing order.
SeqFromSet(S) ==
    IF S = {} THEN <<>>
    ELSE LET m == CHOOSE x \in S : \A y \in S : x <= y
         IN <<m>> \o SeqFromSet(S \ {m})

\* The one-to-one sequences that list the set S.
Perms(S) ==
    {p \in [1..Cardinality(S) -> S] : \A a, b \in DOMAIN p : p[a] = p[b] => a = b}

\* ------------------------------------------------------------ the topology
Shards == {"-", "-80", "80-", "-40", "40-80", "80-c0", "c0-"}

\* A key range's Start and End, each a byte string of at most one byte,
\* written as the byte's value; 0 is the empty string (an open end).
KeyRangeOf(s) ==
    CASE s = "-"     -> [Start |-> 0,   End |-> 0]
      [] s = "-80"   -> [Start |-> 0,   End |-> 128]
      [] s = "80-"   -> [Start |-> 128, End |-> 0]
      [] s = "-40"   -> [Start |-> 0,   End |-> 64]
      [] s = "40-80" -> [Start |-> 64,  End |-> 128]
      [] s = "80-c0" -> [Start |-> 128, End |-> 192]
      [] s = "c0-"   -> [Start |-> 192, End |-> 0]

HexDigit(d) == <<"0", "1", "2", "3", "4", "5", "6", "7", "8", "9", "a", "b", "c", "d", "e", "f">>[d + 1]
\* hex.EncodeToString of a byte string of at most one byte.
HexString(b) == IF b = 0 THEN "" ELSE HexDigit(b \div 16) \o HexDigit(b % 16)

\* key.KeyRangeString: the literal "<start>-<end>" in hex.
KeyRangeString(kr) == HexString(kr.Start) \o "-" \o HexString(kr.End)

\* A test of one side only: whether b starts before a ends.
KeyRangeIntersectOneSided(a, b) == a.End = 0 \/ b.Start < a.End

\* key.KeyRangeIntersect: the ranges share a key.
KeyRangeIntersect(a, b) ==
    /\ (a.End = 0 \/ b.Start < a.End)
    /\ (b.End = 0 \/ a.Start < b.End)

Boundaries == {KeyRangeOf(s).Start : s \in Shards}
Cover(kr) == {p \in Boundaries : kr.Start <= p /\ (kr.End = 0 \/ p < kr.End)}
CoverAll(sis) == UNION {Cover(sis[k].keyRange) : k \in DOMAIN sis}
Disjoint(sis) ==
    \A a, b \in DOMAIN sis :
        a # b => Cover(sis[a].keyRange) \cap Cover(sis[b].keyRange) = {}

\* topotools.ValidateForReshard: the targets partition what the sources
\* cover, without gaps or overlaps.
ValidateForReshard(srcs, tgts) ==
    /\ Disjoint(srcs)
    /\ Disjoint(tgts)
    /\ CoverAll(srcs) = CoverAll(tgts)

\* The source and target shard lists a reshard command may name.
Configs ==
    { [sources |-> <<"-">>,                   targets |-> <<"-80", "80-">>],
      [sources |-> <<"-80", "80-">>,          targets |-> <<"-">>],
      [sources |-> <<"-40", "40-80", "80-">>, targets |-> <<"-80", "80-c0", "c0-">>],
      [sources |-> <<"-80", "80-">>,          targets |-> <<"-40", "40-80", "80-">>],
      [sources |-> <<"-80">>,                 targets |-> <<"-40">>] }

\* --------------------------------------------------------------- the vschema
\* vschema.Tables: table name -> table type.
Table(name, type) == [name |-> name, type |-> type]
VSchemaWithReference == {Table("country", TypeReference), Table("t1", TypeSharded)}
VSchemaNoReference == {Table("country", TypeSharded), Table("t1", TypeSharded)}
VSchemas == {VSchemaWithReference, VSchemaNoReference}

\* schema.IsInternalOperationTableName: the scratch tables of online DDL.
InternalOperationTables == {"_vt_hld_6ace8bcef73211ea87e9f875a4d24e90_20200915120410_"}
IsInternalOperationTableName(name) == name \in InternalOperationTables

\* ------------------------------------------------------------- catalog rows
Rule(match, filter) == [match |-> match, filter |-> filter]

BinlogSource(ks, shard, rules) ==
    [keyspace |-> ks, shard |-> shard, rules |-> rules,
     stopAfterCopy |-> FALSE, onDdl |-> "IGNORE"]

\* The text of a BinlogSource in the source column, and text that is none.
SourceText(bls) == [parses |-> TRUE, bls |-> bls]
Unparsable == [parses |-> FALSE, bls |-> BinlogSource("", "", <<>>)]

\* One row of _vt.vreplication.
Row(workflow, source, cell, tabletTypes, wtype, state, dbName, message) ==
    [workflow |-> workflow, source |-> source, pos |-> "", cell |-> cell,
     tabletTypes |-> tabletTypes, workflowType |-> wtype,
     workflowSubType |-> "None", deferSecondaryKeys |-> FALSE,
     state |-> state, dbName |-> dbName, message |-> message]

\* The streams a source primary may already run, by id.
SourceRowOf(id) ==
    CASE id = 1 -> Row("country_ref", SourceText(BinlogSource("ks", "-", <<Rule("country", "")>>)),
                       "zone1", "primary", "Materialize", "Running", DbName, "")
      [] id = 2 -> Row("country_ref", SourceText(BinlogSource("ks", "-", <<Rule("country", "")>>)),
                       "zone2", "replica", "Materialize", "Running", DbName, "")
      [] id = 3 -> Row("lookup_ref", SourceText(BinlogSource("ks", "0", <<Rule("country", "")>>)),
                       "zone1", "primary", "Materialize", "Running", DbName, "")
      [] id = 4 -> Row("mat", SourceText(BinlogSource("ks", "-", <<Rule("t1", "")>>)),
                       "zone1", "primary", "Materialize", "Running", DbName, "")
      [] id = 5 -> Row("", SourceText(BinlogSource("ks", "-", <<Rule("country", "")>>)),
                       "zone1", "primary", "Materialize", "Running", DbName, "")
      [] id = 6 -> Row("mix", SourceText(BinlogSource("ks", "-", <<Rule("country", ""), Rule("t1", "")>>)),
                       "zone1", "primary", "Materialize", "Running", DbName, "")
      [] id = 7 -> Row("old_ref", SourceText(BinlogSource("ks", "-", <<Rule("country", "")>>)),
                       "zone1", "primary", "Materialize", "Stopped", DbName, "FROZEN")
      [] id = 8 -> Row("bad", Unparsable,
                       "zone1", "primary", "Materialize", "Running", DbName, "")
      [] id = 9 -> Row("ghost", SourceText(BinlogSource("ks", "-", <<Rule("nosuch", "")>>)),
                       "zone1", "primary", "Materialize", "Running", DbName, "")
      [] id = 10 -> Row("norules", SourceText(BinlogSource("ks", "-", <<>>)),
                        "zone1", "primary", "Materialize", "Running", DbName, "")
SourceRowIds == 1..10

\* The rows a target primary may already hold, by id.
TargetRowOf(id) ==
    CASE id = 1 -> Row("leftover", SourceText(BinlogSource("ks", "-", <<Rule("/.*", "-80")>>)),
                       "zone1", "primary", "Reshard", "Stopped", DbName, "")
      [] id = 2 -> Row("foreign", SourceText(BinlogSource("other", "0", <<Rule("/.*", "")>>)),
                       "zone1", "primary", "MoveTables", "Stopped", ForeignDbName, "")
TargetRowIds == 1..2

\* ------------------------------------------------------- stream classifier
HasTable(vs, name) == \E t \in vs : t.name = name
TableOf(vs, name) == CHOOSE t \in vs : t.name = name

\* A lookup without the exception for internal-operation tables.
identifyRuleTypeStrict(vs, rule) ==
    IF ~HasTable(vs, rule.match)
    THEN [typ |-> StreamTypeUnknown, err |-> ErrNoTable]
    ELSE IF TableOf(vs, rule.match).type = TypeReference
    THEN [typ |-> StreamTypeReference, err |-> NoErr]
    ELSE [typ |-> StreamTypeSharded, err |-> NoErr]

\* resharder.identifyRuleType: a stream type, or the error (StreamType 0).
identifyRuleType(vs, rule) ==
    IF ~HasTable(vs, rule.match) /\ ~IsInternalOperationTableName(rule.match)
    THEN [typ |-> StreamTypeUnknown, err |-> ErrNoTable]
    ELSE IF HasTable(vs, rule.match) /\ TableOf(vs, rule.match).type = TypeReference
    THEN [typ |-> StreamTypeReference, err |-> NoErr]
    ELSE [typ |-> StreamTypeSharded, err |-> NoErr]

RECURSIVE blsScanOneWay(_, _, _)
\* A scan that misses a sharded rule after a reference rule.
blsScanOneWay(vs, rules, streamType) ==
    IF rules = <<>>
    THEN [isReference |-> streamType = StreamTypeReference, err |-> NoErr]
    ELSE LET r == identifyRuleType(vs, Head(rules))
         IN IF r.err # NoErr
            THEN [isReference |-> FALSE, err |-> r.err]
            ELSE IF r.typ = StreamTypeReference /\ streamType = StreamTypeSharded
            THEN [isReference |-> FALSE, err |-> ErrMix]
            ELSE blsScanOneWay(vs, Tail(rules), r.typ)

RECURSIVE blsScanEmptyIsReference(_, _, _)
\* A scan that takes a stream for a reference stream unless it met a rule
\* on a sharded table.
blsScanEmptyIsReference(vs, rules, streamType) ==
    IF rules = <<>>
    THEN [isReference |-> streamType # StreamTypeSharded, err |-> NoErr]
    ELSE LET r == identifyRuleType(vs, Head(rules))
         IN IF r.err # NoErr
            THEN [isReference |-> FALSE, err |-> r.err]
            ELSE IF \/ r.typ = StreamTypeSharded /\ streamType = StreamTypeReference
                    \/ r.typ = StreamTypeReference /\ streamType = StreamTypeSharded
            THEN [isReference |-> FALSE, err |-> ErrMix]
            ELSE blsScanEmptyIsReference(vs, Tail(rules), r.typ)

RECURSIVE blsScan(_, _, _)
\* The loop of blsIsReference over the rules, from streamType.
blsScan(vs, rules, streamType) ==
    IF rules = <<>>
    THEN [isReference |-> streamType = StreamTypeReference, err |-> NoErr]
    ELSE LET r == identifyRuleType(vs, Head(rules))
         IN IF r.err # NoErr
            THEN [isReference |-> FALSE, err |-> r.err]
            ELSE IF \/ r.typ = StreamTypeSharded /\ streamType = StreamTypeReference
                    \/ r.typ = StreamTypeReference /\ streamType = StreamTypeSharded
            THEN [isReference |-> FALSE, err |-> ErrMix]
            ELSE blsScan(vs, Tail(rules), r.typ)

\* resharder.blsIsReference.
blsIsReference(vs, bls) == blsScan(vs, bls.rules, StreamTypeUnknown)

\* fmt.Sprintf("%s:%s:%s", workflow, bls.Keyspace, bls.Shard)
RefKey(workflow, bls) == workflow \o ":" \o bls.keyspace \o ":" \o bls.shard

\* ------------------------------------------------ the tablet's side of the RPC
\* A probe that only counts the streams that are running.
ExecProbeRunning(cat, dbName) ==
    SelectSeq(cat, LAMBDA r : r.dbName = dbName /\ r.state = "Running")

\* select 1 from _vt.vreplication where db_name=<dbName>
ExecProbe(cat, dbName) == SelectSeq(cat, LAMBDA r : r.dbName = dbName)

\* A query without `and message != 'FROZEN'`.
ExecReadStreamsAll(cat, dbName) ==
    LET sel == SelectSeq(cat, LAMBDA r : r.dbName = dbName)
    IN [k \in DOMAIN sel |->
           [workflow |-> sel[k].workflow, source |-> sel[k].source,
            cell |-> sel[k].cell, tabletTypes |-> sel[k].tabletTypes]]

\* select workflow, source, cell, tablet_types from _vt.vreplication
\* where db_name=<dbName> and message != 'FROZEN'
ExecReadStreams(cat, dbName) ==
    LET sel == SelectSeq(cat, LAMBDA r : r.dbName = dbName /\ r.message # "FROZEN")
    IN [k \in DOMAIN sel |->
           [workflow |-> sel[k].workflow, source |-> sel[k].source,
            cell |-> sel[k].cell, tabletTypes |-> sel[k].tabletTypes]]

\* insert into _vt.vreplication (...) values (...), (...)
ExecInsert(cat, rows) == cat \o rows

\* update _vt.vreplication set state='Running' where db_name=<dbName>
ExecStart(cat, dbName) ==
    [k \in DOMAIN cat |->
        IF cat[k].dbName = dbName THEN [cat[k] EXCEPT !.state = "Running"] ELSE cat[k]]

\* vreplication.InsertGenerator: NewInsertGenerator and AddRow.
NewInsertGenerator(state, dbName) == [state |-> state, dbName |-> dbName, rows |-> <<>>]
AddRow(ig, workflow, bls, pos, cell, tabletTypes, wtype, wsubtype, deferSK) ==
    [ig EXCEPT !.rows = Append(@,
        [workflow |-> workflow, source |-> SourceText(bls), pos |-> pos, cell |-> cell,
         tabletTypes |-> tabletTypes, workflowType |-> wtype,
         workflowSubType |-> wsubtype, deferSecondaryKeys |-> deferSK,
         state |-> ig.state, dbName |-> ig.dbName, message |-> ""])]

\* ------------------------------------------------------------------- state
VARIABLES
    sources,       \* the command's source shard names
    targets,       \* the command's target shard names
    serving,       \* topology: shard -> IsPrimaryServing
    vschema,       \* topology: the keyspace's vschema tables
    catalog,       \* shard -> the rows of its primary's _vt.vreplication
    faults,        \* lookups and RPCs that have failed so far
    commands,      \* how many times the operator issues the command
    concurrent,    \* whether the commands may overlap in time
    pc,            \* invocation -> where the command stands
    idx,           \* invocation -> position in buildResharder's current loop
    rs,            \* invocation -> the resharder
    fan,           \* invocation -> the phase whose forAll is at wg.Wait, or ""
    tasks,         \* invocation -> phase -> the goroutines of its forAll
    allErrors,     \* invocation -> phase -> the AllErrorRecorder of its forAll
    mu,            \* invocation -> the task holding readRefStreams' mutex, or 0
    excludeRules,  \* invocation -> createStreams' excludeRules
    result,        \* invocation -> the error returned: its wrap label and causes
    writes,        \* invocation -> shard -> insert and update RPCs issued to it
    before,        \* invocation -> the catalogs as they were when it was issued
    call,          \* a function applied on its own: its name, arguments and result
    mem,           \* createStreams' slices: backing arrays, excludeRules, each f's locals
    ar             \* vtctld's ActionRepository and the tablet actions applied through it

vars == <<sources, targets, serving, vschema, catalog, faults, commands, concurrent, pc, idx,
          rs, fan, tasks, allErrors, mu, excludeRules, result, writes, before, call, mem,
          ar>>
env == <<sources, targets, serving, vschema, commands, concurrent, call, mem, ar>>

\* No function is applied on its own while commands run.
NoCall == [op |-> "", args |-> <<>>, done |-> FALSE, ret |-> <<>>]

\* Slices are not followed while whole commands run.
NilSlice == [arr |-> 0, len |-> 0]
NoMem == [arrays |-> <<>>, excl |-> NilSlice, tables |-> <<>>, order |-> <<>>, local |-> <<>>]

\* The result of an action that was never applied.
NoActionResult == [Name |-> "", Parameters |-> "", Output |-> "", Error |-> FALSE]

\* NewActionRepository: a repository with no actions. Beside the map of
\* tablet actions the model keeps what ApplyTabletAction was last called
\* with and returned, and the methods it has invoked, oldest first.
NewActionRepository ==
    [tabletActions |-> <<>>, applied |-> 0, actionName |-> "", r |-> {},
     result |-> NoActionResult, invoked |-> <<>>]

FanPhases == {"validateTargets", "readRefStreams", "copySchema", "createStreams", "startStreams"}

\* topo.ShardInfo as GetShard returns it.
ShardInfo(s) == [name |-> s, isPrimaryServing |-> serving[s], keyRange |-> KeyRangeOf(s)]

NewResharder ==
    [sourceShards |-> <<>>, sourcePrimaries |-> {}, targetShards |-> <<>>,
     targetPrimaries |-> {}, vschema |-> {}, refNil |-> TRUE, refStreams |-> {}]

NoResult == [label |-> "", errors |-> <<>>]
NoWrites == [s \in Shards |-> [inserts |-> 0, inserted |-> 0, updates |-> 0]]

\* The sets of at most max (shard, row id) pairs.
Placements(S, Ids, max) ==
    {Range(q) : q \in UNION {[1..n -> S \X Ids] : n \in 0..max}}

RowsAt(s, P, RowOf(_)) ==
    LET ids == SeqFromSet({p[2] : p \in {q \in P : q[1] = s}})
    IN [k \in DOMAIN ids |-> RowOf(ids[k])]

\* The command gets as far as reading catalogs: every shard it names is in
\* the state buildResharder wants and the validator accepts the lists.
ReadsCatalogs(cfg, bad) ==
    LET info(names) == [k \in DOMAIN names |-> [name |-> names[k], keyRange |-> KeyRangeOf(names[k])]]
    IN /\ bad = {}
       /\ Range(cfg.sources) \cap Range(cfg.targets) = {}
       /\ ValidateForReshard(info(cfg.sources), info(cfg.targets))

\* Scenario S3: targets -40, 40-80 and 80- for the sources -80 and 80-, each
\* source running the reference stream country_ref.
S3Targets == <<"-40", "40-80", "80-">>
S3Streams == {<<"-80", 1>>, <<"80-", 1>>}

\* The streams the sources of a command may run: all of them for up to two
\* sources, the well-formed ones (1..4) for more.
SourceRowsFor(cfg) == IF Len(cfg.sources) <= 2 THEN SourceRowIds ELSE {id \in SourceRowIds : id <= 4}

\* The state in which the operator is about to issue n commands with the
\* lists of cfg, one after the other or (conc) at the same time, given the
\* vschema, the streams placed on the shards and the shards whose serving
\* state is the opposite of what the command wants.
Setup(cfg, vs, n, sp, tp, bad, conc) ==
    /\ commands = n
    /\ sources = cfg.sources
    /\ targets = cfg.targets
    /\ serving = [s \in Shards |-> (s \in Range(cfg.sources)) # (s \in bad)]
    /\ vschema = vs
    /\ catalog = [s \in Shards |-> RowsAt(s, sp, SourceRowOf) \o RowsAt(s, tp, TargetRowOf)]
    /\ faults = 0
    /\ concurrent = conc
    /\ pc = [i \in Invocations |-> "idle"]
    /\ idx = [i \in Invocations |-> 1]
    /\ rs = [i \in Invocations |-> NewResharder]
    /\ fan = [i \in Invocations |-> ""]
    /\ tasks = [i \in Invocations |-> [p \in FanPhases |-> <<>>]]
    /\ allErrors = [i \in Invocations |-> [p \in FanPhases |-> <<>>]]
    /\ mu = [i \in Invocations |-> 0]
    /\ excludeRules = [i \in Invocations |-> <<>>]
    /\ result = [i \in Invocations |-> NoResult]
    /\ writes = [i \in Invocations |-> NoWrites]
    /\ before = [i \in Invocations |-> [s \in Shards |-> <<>>]]
    /\ call = NoCall
    /\ mem = NoMem
    /\ ar = NewActionRepository

Init ==
    \E cfg \in Configs, vs \in VSchemas, n \in Invocations :
    \E sp \in Placements(Range(cfg.sources), SourceRowsFor(cfg), MaxSourceRows),
       tp \in Placements(Range(cfg.targets), TargetRowIds, MaxTargetRows),
       bad \in SUBSET (Range(cfg.sources) \cup Range(cfg.targets)) :
        \* Catalogs that no command reads stay empty, or hold the streams of
        \* scenario S3.
        /\ ~ReadsCatalogs(cfg, bad) =>
              /\ tp = {}
              /\ sp = {} \/ (cfg.targets = S3Targets /\ sp = S3Streams)
        \* Source catalogs vary in full where they are classified with a
        \* reference table, the targets are clean and the command is issued once.
        /\ (vs # VSchemaWithReference \/ tp # {} \/ n > 1) => Cardinality(sp) <= 1
        /\ Setup(cfg, vs, n, sp, tp, bad, FALSE)

\* ------------------------------------------------------- the command's frame
\* The command returns err wrapped with label.
Fail(i, label, errs) ==
    /\ pc' = [pc EXCEPT ![i] = "failed"]
    /\ result' = [result EXCEPT ![i] = [label |-> label, errors |-> errs]]

\* A lookup or an RPC fails.
Fault ==
    /\ faults < MaxFaults
    /\ faults' = faults + 1

\* The command issued an insert or an update RPC.
Wrote(j) == \E s \in Shards : writes[j][s].inserts + writes[j][s].updates > 0

\* A reshard command is issued: buildResharder starts with its first loop.
\* A resharder lives for one command; those of the commands that have
\* returned are gone, and only what they returned and wrote is kept.
\* The operator issues the command again once the one before has returned
\* after writing: one that wrote nothing left every catalog as it was, and
\* issuing the command after it is issuing it first.
Start(i) ==
    /\ pc[i] = "idle"
    /\ i <= commands
    /\ concurrent \/ \A j \in Invocations : j < i => pc[j] \in {"done", "failed"} /\ Wrote(j)
    /\ pc' = [pc EXCEPT ![i] = "buildSources"]
    /\ LET gone(j) == j # i /\ pc[j] \in {"done", "failed"}
       IN /\ rs' = [j \in Invocations |-> IF gone(j) THEN NewResharder ELSE rs[j]]
          /\ tasks' = [j \in Invocations |->
                         IF gone(j) THEN [p \in FanPhases |-> <<>>] ELSE tasks[j]]
          /\ allErrors' = [j \in Invocations |->
                             IF gone(j) THEN [p \in FanPhases |-> <<>>] ELSE allErrors[j]]
          /\ excludeRules' = [j \in Invocations |-> IF gone(j) THEN <<>> ELSE excludeRules[j]]
    /\ before' = [before EXCEPT ![i] = catalog]
    /\ UNCHANGED <<env, catalog, faults, idx, fan, mu, result, writes>>

\* ------------------------------------------------------------ buildResharder
\* A sources' loop that never looks at IsPrimaryServing.
SourceRejectedNever(si) == FALSE

\* `if !si.IsPrimaryServing` of the sources' loop.
SourceRejected(si) == ~si.isPrimaryServing

\* The sources' test pasted into the targets' loop.
TargetRejectedIfNotServing(si) == ~si.isPrimaryServing

\* A targets' loop that never looks at IsPrimaryServing.
TargetRejectedNever(si) == FALSE

\* `if si.IsPrimaryServing` of the targets' loop.
TargetRejected(si) == si.isPrimaryServing

\* One iteration of `for _, shard := range sources`.
BuildSource(i) ==
    /\ pc[i] = "buildSources"
    /\ idx[i] \in DOMAIN sources
    /\ LET shard == sources[idx[i]]
           si == ShardInfo(shard)
           last == idx[i] = Len(sources)
       IN \/ /\ Fault
             /\ Fail(i, "", <<ErrGetShard>>)
             /\ UNCHANGED <<idx, rs>>
          \/ /\ SourceRejected(si)
             /\ Fail(i, "", <<ErrSourceNotServing>>)
             /\ UNCHANGED <<faults, idx, rs>>
          \/ /\ ~SourceRejected(si)
             /\ Fault
             /\ rs' = [rs EXCEPT ![i].sourceShards = Append(@, si)]
             /\ Fail(i, "", <<ErrGetTablet>>)
             /\ UNCHANGED idx
          \/ /\ ~SourceRejected(si)
             /\ rs' = [rs EXCEPT ![i].sourceShards = Append(@, si),
                                 ![i].sourcePrimaries = @ \cup {si.name}]
             /\ idx' = [idx EXCEPT ![i] = IF last THEN 1 ELSE @ + 1]
             /\ pc' = [pc EXCEPT ![i] = IF last THEN "buildTargets" ELSE @]
             /\ UNCHANGED <<faults, result>>
    /\ UNCHANGED <<env, catalog, fan, tasks, allErrors, mu, excludeRules, writes, before>>

\* One iteration of `for _, shard := range targets`.
BuildTarget(i) ==
    /\ pc[i] = "buildTargets"
    /\ idx[i] \in DOMAIN targets
    /\ LET shard == targets[idx[i]]
           si == ShardInfo(shard)
           last == idx[i] = Len(targets)
       IN \/ /\ Fault
             /\ Fail(i, "", <<ErrGetShard>>)
             /\ UNCHANGED <<idx, rs>>
          \/ /\ TargetRejected(si)
             /\ Fail(i, "", <<ErrTargetServing>>)
             /\ UNCHANGED <<faults, idx, rs>>
          \/ /\ ~TargetRejected(si)
             /\ Fault
             /\ rs' = [rs EXCEPT ![i].targetShards = Append(@, si)]
             /\ Fail(i, "", <<ErrGetTablet>>)
             /\ UNCHANGED idx
          \/ /\ ~TargetRejected(si)
             /\ rs' = [rs EXCEPT ![i].targetShards = Append(@, si),
                                 ![i].targetPrimaries = @ \cup {si.name}]
             /\ idx' = [idx EXCEPT ![i] = IF last THEN 1 ELSE @ + 1]
             /\ pc' = [pc EXCEPT ![i] = IF last THEN "validateForReshard" ELSE @]
             /\ UNCHANGED <<faults, result>>
    /\ UNCHANGED <<env, catalog, fan, tasks, allErrors, mu, excludeRules, writes, before>>

\* topotools.ValidateForReshard(rs.sourceShards, rs.targetShards)
CheckReshard(i) ==
    /\ pc[i] = "validateForReshard"
    /\ IF ValidateForReshard(rs[i].sourceShards, rs[i].targetShards)
       THEN /\ pc' = [pc EXCEPT ![i] = "validateTargets"]
            /\ UNCHANGED result
       ELSE Fail(i, "ValidateForReshard", <<ErrValidateForReshard>>)
    /\ UNCHANGED <<env, catalog, faults, idx, rs, fan, tasks, allErrors, mu,
                   excludeRules, writes, before>>

\* ts.GetVSchema(ctx, keyspace)
GetVSchema(i) ==
    /\ pc[i] = "getVSchema"
    /\ \/ /\ Fault
          /\ Fail(i, "GetVSchema", <<ErrGetVSchema>>)
          /\ UNCHANGED rs
       \/ /\ rs' = [rs EXCEPT ![i].vschema = vschema]
          /\ pc' = [pc EXCEPT ![i] = "readRefStreams"]
          /\ UNCHANGED <<faults, result>>
    /\ UNCHANGED <<env, catalog, idx, fan, tasks, allErrors, mu, excludeRules, writes, before>>

\* -------------------------------------------------------------------- forAll
\* A goroutine of forAll, about to call f(shard).
Task(si) ==
    [shard |-> si, st |-> "spawned", calls |-> 0, err |-> NoErr,
     rows |-> <<>>, ref |-> {}, mustCreate |-> FALSE]

\* A forAll that keeps one err variable in place of the recorder: the last
\* error returned overwrites the others.
RecordErrorLastWins(errs, err) == IF err # NoErr THEN <<err>> ELSE errs

\* allErrors.RecordError(err), called when f returned a non-nil error.
RecordError(errs, err) == IF err # NoErr THEN Append(errs, err) ELSE errs

\* A wait group that is never added to: wg.Wait() returns at once.
WaitNothing(ts) == TRUE

\* A wait that gives up on the first error recorded (an errgroup's behaviour).
WaitFirstError(ts) ==
    \/ \A k \in DOMAIN ts : ts[k].st = "done"
    \/ \E k \in DOMAIN ts : ts[k].st = "done" /\ ts[k].err # NoErr

\* wg.Wait() returns: every goroutine has called wg.Done().
WaitReturns(ts) == \A k \in DOMAIN ts : ts[k].st = "done"

\* An aggregate that is dropped: forAll returns nil whatever was recorded.
AggrErrorDropped(errs) == <<>>

\* allErrors.AggrError: nil when nothing was recorded.
AggrError(errs) == errs

\* forAll's loop: one goroutine per shard of the list, then wg.Wait().
ForAll(i, p, shards) ==
    /\ fan[i] = ""
    /\ fan' = [fan EXCEPT ![i] = p]
    /\ tasks' = [tasks EXCEPT ![i][p] = [k \in DOMAIN shards |-> Task(shards[k])]]
    /\ allErrors' = [allErrors EXCEPT ![i][p] = <<>>]

\* The goroutine calls f(shard).
Call(t) == [t EXCEPT !.calls = @ + 1]

\* A goroutine that runs f again when it returned an error.
ReturnRetried(i, p, k, t, err) ==
    /\ tasks' = [tasks EXCEPT ![i][p][k] =
                    IF err # NoErr THEN t ELSE [t EXCEPT !.st = "done", !.err = err]]
    /\ allErrors' = [allErrors EXCEPT ![i][p] = @]

\* The goroutine's f returned err: the error is recorded, then wg.Done().
Return(i, p, k, t, err) ==
    /\ tasks' = [tasks EXCEPT ![i][p][k] = [t EXCEPT !.st = "done", !.err = err]]
    /\ allErrors' = [allErrors EXCEPT ![i][p] = RecordError(@, err)]

\* Where the command goes when the forAll of phase p returned nil:
\* buildResharder goes on to GetVSchema and returns rs after readRefStreams.
BuildNext(p) ==
    CASE p = "validateTargets" -> "getVSchema"
      [] p = "readRefStreams" -> "copySchema"

\* The caller of buildResharder runs copySchema, createStreams, startStreams.
ReshardNext(p) ==
    CASE p = "copySchema" -> "createStreams"
      [] p = "createStreams" -> "startStreams"
      [] p = "startStreams" -> "done"

NextPhase(p) == IF p \in {"validateTargets", "readRefStreams"} THEN BuildNext(p) ELSE ReshardNext(p)

\* A buildResharder that returns the error of its phases as it got it.
BuildWrapNothing(p) == ""

\* buildResharder wraps the error of validateTargets and of readRefStreams
\* with the function's name.
BuildWrap(p) == p

\* copySchema, createStreams and startStreams return forAll's error as it
\* is; their caller attaches the phase's name.
ReshardWrap(p) == p

WrapOf(p) == IF p \in {"validateTargets", "readRefStreams"} THEN BuildWrap(p) ELSE ReshardWrap(p)

\* wg.Wait() returns and forAll returns the aggregate to the phase, which
\* returns it to the command: a non-nil error ends the command.
ForAllReturn(i) ==
    /\ fan[i] # ""
    /\ pc[i] = fan[i]
    /\ WaitReturns(tasks[i][fan[i]])
    /\ fan' = [fan EXCEPT ![i] = ""]
    /\ LET err == AggrError(allErrors[i][fan[i]])
       IN IF err # <<>>
          THEN Fail(i, WrapOf(fan[i]), err)
          ELSE /\ pc' = [pc EXCEPT ![i] = NextPhase(fan[i])]
               /\ UNCHANGED result
    /\ UNCHANGED <<env, catalog, faults, idx, rs, tasks, allErrors, mu,
                   excludeRules, writes, before>>

\* ------------------------------------------------------------ validateTargets
ValidateTargets(i) ==
    /\ pc[i] = "validateTargets"
    /\ ForAll(i, "validateTargets", rs[i].targetShards)
    /\ UNCHANGED <<env, catalog, faults, pc, idx, rs, mu, excludeRules, result, writes, before>>

\* A probe that tolerates one row.
StreamsExistSeveral(rows) == Len(rows) > 1

\* `if len(p3qr.Rows) != 0`
StreamsExist(rows) == Len(rows) # 0

\* f of validateTargets on the k-th target.
ProbeTarget(i, k) ==
    /\ k \in DOMAIN tasks[i]["validateTargets"]
    /\ LET t == tasks[i]["validateTargets"][k]
       IN /\ t.st = "spawned"
          /\ \/ /\ Fault
                /\ Return(i, "validateTargets", k, Call(t), ErrExec)
             \/ /\ LET p3qr == ExecProbe(catalog[t.shard.name], DbName)
                   IN Return(i, "validateTargets", k, [Call(t) EXCEPT !.rows = p3qr],
                             IF StreamsExist(p3qr) THEN ErrStreamsExist ELSE NoErr)
                /\ UNCHANGED faults
    /\ UNCHANGED <<env, catalog, pc, idx, rs, fan, mu, excludeRules, result, writes, before>>

\* ------------------------------------------------------------- readRefStreams
ReadRefStreams(i) ==
    /\ pc[i] = "readRefStreams"
    /\ ForAll(i, "readRefStreams", rs[i].sourceShards)
    /\ mu' = [mu EXCEPT ![i] = 0]
    /\ UNCHANGED <<env, catalog, faults, pc, idx, rs, excludeRules, result, writes, before>>

\* The source task's query of its primary's catalog.
ReadSource(i, k) ==
    /\ k \in DOMAIN tasks[i]["readRefStreams"]
    /\ LET t == tasks[i]["readRefStreams"][k]
       IN /\ t.st = "spawned"
          /\ \/ /\ Fault
                /\ Return(i, "readRefStreams", k, Call(t), ErrExec)
             \/ /\ tasks' = [tasks EXCEPT ![i]["readRefStreams"][k] =
                               [Call(t) EXCEPT !.st = "read",
                                         !.rows = ExecReadStreams(catalog[t.shard.name], DbName)]]
                /\ UNCHANGED <<faults, allErrors>>
    /\ UNCHANGED <<env, catalog, pc, idx, rs, fan, mu, excludeRules, result, writes, before>>

Keys(refs) == {e.key : e \in refs}
MapPut(refs, e) == {x \in refs : x.key # e.key} \cup {e}

\* A lock that is granted whoever holds it.
LockGrantedAlways(holder, k) == TRUE

\* mu.Lock() is granted to task k.
LockGranted(holder, k) == holder = 0

\* mu.Lock(), then the task defines the map or copies its keys.
LockSource(i, k) ==
    /\ k \in DOMAIN tasks[i]["readRefStreams"]
    /\ LET t == tasks[i]["readRefStreams"][k]
       IN /\ t.st = "read"
          /\ LockGranted(mu[i], k)
          /\ mu' = [mu EXCEPT ![i] = k]
          /\ IF rs[i].refNil
             THEN /\ rs' = [rs EXCEPT ![i].refNil = FALSE, ![i].refStreams = {}]
                  /\ tasks' = [tasks EXCEPT ![i]["readRefStreams"][k] =
                                 [t EXCEPT !.st = "locked", !.mustCreate = TRUE]]
             ELSE /\ tasks' = [tasks EXCEPT ![i]["readRefStreams"][k] =
                                 [t EXCEPT !.st = "locked", !.ref = Keys(rs[i].refStreams)]]
                  /\ UNCHANGED rs
    /\ UNCHANGED <<env, catalog, faults, pc, idx, fan, allErrors, excludeRules, result, writes, before>>

\* A loop body that asks for a workflow name only once the stream is known
\* to be a reference stream.
processRowNamedLate(vs, t, refs) ==
    LET row == Head(t.rows)
        bls == row.source.bls
        cls == blsIsReference(vs, bls)
        refKey == RefKey(row.workflow, bls)
        out(ret, err, ref, m) == [ret |-> ret, err |-> err, ref |-> ref, refs |-> m]
    IN IF ~row.source.parses THEN out(TRUE, ErrUnmarshal, t.ref, refs)
       ELSE IF cls.err # NoErr THEN out(TRUE, cls.err, t.ref, refs)
       ELSE IF ~cls.isReference THEN out(FALSE, NoErr, t.ref, refs)
       ELSE IF row.workflow = "" THEN out(TRUE, ErrNoWorkflow, t.ref, refs)
       ELSE IF t.mustCreate
       THEN out(FALSE, NoErr, t.ref,
                MapPut(refs, [key |-> refKey, workflow |-> row.workflow, bls |-> bls,
                              cell |-> row.cell, tabletTypes |-> row.tabletTypes]))
       ELSE IF refKey \notin t.ref THEN out(TRUE, ErrMismatchKey, t.ref, refs)
       ELSE out(FALSE, NoErr, t.ref \ {refKey}, refs)

\* The body of `for _, row := range qr.Rows` on the first row left: whether
\* f returns (and with what), the task's ref and the shared map afterwards.
processRow(vs, t, refs) ==
    LET row == Head(t.rows)
        bls == row.source.bls
        cls == blsIsReference(vs, bls)
        refKey == RefKey(row.workflow, bls)
        out(ret, err, ref, m) == [ret |-> ret, err |-> err, ref |-> ref, refs |-> m]
    IN IF row.workflow = "" THEN out(TRUE, ErrNoWorkflow, t.ref, refs)
       ELSE IF ~row.source.parses THEN out(TRUE, ErrUnmarshal, t.ref, refs)
       ELSE IF cls.err # NoErr THEN out(TRUE, cls.err, t.ref, refs)
       ELSE IF ~cls.isReference THEN out(FALSE, NoErr, t.ref, refs)
       ELSE IF t.mustCreate
       THEN out(FALSE, NoErr, t.ref,
                MapPut(refs, [key |-> refKey, workflow |-> row.workflow, bls |-> bls,
                              cell |-> row.cell, tabletTypes |-> row.tabletTypes]))
       ELSE IF refKey \notin t.ref THEN out(TRUE, ErrMismatchKey, t.ref, refs)
       ELSE out(FALSE, NoErr, t.ref \ {refKey}, refs)

\* `if len(ref) != 0` after the loop.
checkLeft(ref) == IF ref # {} THEN ErrMismatchLeft ELSE NoErr

\* An unlock written at the end of f only: an error return leaves the
\* mutex with its holder.
UnlockAtEndOnly(holder, err) == IF err = NoErr THEN 0 ELSE holder

\* `defer mu.Unlock()`: the mutex is free once f has returned, whatever the
\* error it returned.
DeferredUnlock(holder, err) == 0

\* The lock holder handles one row; on an error f returns and the deferred
\* mu.Unlock() runs.
ProcessRow(i, k) ==
    /\ k \in DOMAIN tasks[i]["readRefStreams"]
    /\ LET t == tasks[i]["readRefStreams"][k]
       IN /\ t.st = "locked"
          /\ t.rows # <<>>
          /\ LET r == processRow(rs[i].vschema, t, rs[i].refStreams)
             IN /\ rs' = [rs EXCEPT ![i].refStreams = r.refs]
                /\ IF r.ret
                   THEN /\ Return(i, "readRefStreams", k, t, r.err)
                        /\ mu' = [mu EXCEPT ![i] = DeferredUnlock(@, r.err)]
                   ELSE /\ tasks' = [tasks EXCEPT ![i]["readRefStreams"][k] =
                                       [t EXCEPT !.rows = Tail(@), !.ref = r.ref]]
                        /\ UNCHANGED <<allErrors, mu>>
    /\ UNCHANGED <<env, catalog, faults, pc, idx, fan, excludeRules, result, writes, before>>

\* The rows are exhausted: the leftover check, f returns, mu.Unlock().
FinishSource(i, k) ==
    /\ k \in DOMAIN tasks[i]["readRefStreams"]
    /\ LET t == tasks[i]["readRefStreams"][k]
       IN /\ t.st = "locked"
          /\ t.rows = <<>>
          /\ Return(i, "readRefStreams", k, t, checkLeft(t.ref))
          /\ mu' = [mu EXCEPT ![i] = DeferredUnlock(@, checkLeft(t.ref))]
    /\ UNCHANGED <<env, catalog, faults, pc, idx, rs, fan, excludeRules, result, writes, before>>

\* ----------------------------------------------------------------- copySchema
CopySchema(i) ==
    /\ pc[i] = "copySchema"
    /\ ForAll(i, "copySchema", rs[i].targetShards)
    /\ UNCHANGED <<env, catalog, faults, pc, idx, rs, mu, excludeRules, result, writes, before>>

\* f of copySchema: CopySchemaShard from the first source's primary.
CopySchemaShard(i, k) ==
    /\ k \in DOMAIN tasks[i]["copySchema"]
    /\ LET t == tasks[i]["copySchema"][k]
       IN /\ t.st = "spawned"
          /\ \/ /\ Fault
                /\ Return(i, "copySchema", k, Call(t), ErrCopySchema)
             \/ /\ Return(i, "copySchema", k, Call(t), NoErr)
                /\ UNCHANGED faults
    /\ UNCHANGED <<env, catalog, pc, idx, rs, fan, mu, excludeRules, result, writes, before>>

\* -------------------------------------------------------------- createStreams
\* The names of the vschema's reference tables.
ReferenceTables(vs) == {t.name : t \in {x \in vs : x.type = TypeReference}}

\* The exclude rules in the order the map's iteration gave the tables.
ExcludeRules(order) == [k \in DOMAIN order |-> Rule(order[k], "exclude")]

\* createStreams up to its forAll: excludeRules from a range over the
\* vschema's tables (a Go map: any order).
CreateStreams(i) ==
    /\ pc[i] = "createStreams"
    /\ \E order \in Perms(ReferenceTables(rs[i].vschema)) :
          excludeRules' = [excludeRules EXCEPT ![i] = ExcludeRules(order)]
    /\ ForAll(i, "createStreams", rs[i].targetShards)
    /\ UNCHANGED <<env, catalog, faults, pc, idx, rs, mu, result, writes, before>>

RECURSIVE addShardedAll(_, _, _, _)
\* A loop without its intersection test: a row for every source.
addShardedAll(ig, target, srcs, copyExcludeRules) ==
    IF srcs = <<>> THEN ig
    ELSE LET source == Head(srcs)
             filter == Append(copyExcludeRules,
                              Rule("/.*", KeyRangeString(target.keyRange)))
             bls == [keyspace |-> Keyspace, shard |-> source.name,
                     rules |-> filter, stopAfterCopy |-> StopAfterCopy,
                     onDdl |-> OnDDL]
         IN addShardedAll(AddRow(ig, Workflow, bls, "", Cell, TabletTypes,
                                 "Reshard", "None", DeferSecondaryKeys),
                          target, Tail(srcs), copyExcludeRules)

\* The last rule of a filter with the key range of the source.
KeyRangeRuleOfSource(target, source) == Rule("/.*", KeyRangeString(source))

\* `&binlogdatapb.Rule{Match: "/.*", Filter: key.KeyRangeString(target.KeyRange)}`
\* for a target's and a source's key range.
KeyRangeRule(target, source) == Rule("/.*", KeyRangeString(target))

RECURSIVE addSharded(_, _, _, _)
\* `for _, source := range rs.sourceShards`: a row for each source whose
\* key range intersects the target's.
addSharded(ig, target, srcs, copyExcludeRules) ==
    IF srcs = <<>> THEN ig
    ELSE LET source == Head(srcs)
         IN IF ~KeyRangeIntersect(target.keyRange, source.keyRange)
            THEN addSharded(ig, target, Tail(srcs), copyExcludeRules)
            ELSE LET filter == Append(copyExcludeRules,
                                      KeyRangeRule(target.keyRange, source.keyRange))
                     bls == [keyspace |-> Keyspace, shard |-> source.name,
                             rules |-> filter, stopAfterCopy |-> StopAfterCopy,
                             onDdl |-> OnDDL]
                 IN addSharded(AddRow(ig, Workflow, bls, "", Cell, TabletTypes,
                                      "Reshard", "None", DeferSecondaryKeys),
                               target, Tail(srcs), copyExcludeRules)

RECURSIVE addReferenceRenamed(_, _)
\* Reference rows added under the reshard's own workflow name.
addReferenceRenamed(ig, rstreams) ==
    IF rstreams = <<>> THEN ig
    ELSE LET rstream == Head(rstreams)
         IN addReferenceRenamed(AddRow(ig, Workflow, rstream.bls, "", rstream.cell,
                                       rstream.tabletTypes, "Reshard", "None",
                                       DeferSecondaryKeys),
                                Tail(rstreams))

RECURSIVE addReference(_, _)
\* `for _, rstream := range rs.refStreams`, in the order given.
addReference(ig, rstreams) ==
    IF rstreams = <<>> THEN ig
    ELSE LET rstream == Head(rstreams)
         IN addReference(AddRow(ig, rstream.workflow, rstream.bls, "", rstream.cell,
                                rstream.tabletTypes, "Reshard", "None",
                                DeferSecondaryKeys),
                         Tail(rstreams))

\* An insert generator seeded with the keyspace's name for db_name.
streamRowsKeyspaceDb(target, srcs, excl, rstreams) ==
    addReference(addSharded(NewInsertGenerator("Stopped", Keyspace), target, srcs, excl),
                 rstreams).rows

\* An insert generator seeded with state Running.
streamRowsRunning(target, srcs, excl, rstreams) ==
    addReference(addSharded(NewInsertGenerator("Running", DbName), target, srcs, excl),
                 rstreams).rows

\* The rows f of createStreams inserts on target.
streamRows(target, srcs, excl, rstreams) ==
    addReference(addSharded(NewInsertGenerator("Stopped", DbName), target, srcs, excl),
                 rstreams).rows

\* f of createStreams on the k-th target: one insert RPC.
InsertStreams(i, k) ==
    /\ k \in DOMAIN tasks[i]["createStreams"]
    /\ LET t == tasks[i]["createStreams"][k]
           name == t.shard.name
       IN /\ t.st = "spawned"
          /\ \/ /\ Fault
                /\ writes' = [writes EXCEPT ![i][name].inserts = @ + 1]
                /\ Return(i, "createStreams", k, Call(t), ErrExec)
                /\ UNCHANGED catalog
             \/ /\ \E order \in Perms(rs[i].refStreams) :
                      catalog' = [catalog EXCEPT ![name] =
                          ExecInsert(@, streamRows(t.shard, rs[i].sourceShards,
                                                   excludeRules[i], order))]
                /\ writes' = [writes EXCEPT ![i][name].inserts = @ + 1,
                                             ![i][name].inserted = @ + 1]
                /\ Return(i, "createStreams", k, Call(t), NoErr)
                /\ UNCHANGED faults
    /\ UNCHANGED <<env, pc, idx, rs, fan, mu, excludeRules, result, before>>

\* --------------------------------------------------------------- startStreams
StartStreams(i) ==
    /\ pc[i] = "startStreams"
    /\ ForAll(i, "startStreams", rs[i].targetShards)
    /\ UNCHANGED <<env, catalog, faults, pc, idx, rs, mu, excludeRules, result, writes, before>>

\* f of startStreams on the k-th target: one update RPC.
UpdateRunning(i, k) ==
    /\ k \in DOMAIN tasks[i]["startStreams"]
    /\ LET t == tasks[i]["startStreams"][k]
           name == t.shard.name
       IN /\ t.st = "spawned"
          /\ writes' = [writes EXCEPT ![i][name].updates = @ + 1]
          /\ \/ /\ Fault
                /\ Return(i, "startStreams", k, Call(t), ErrExec)
                /\ UNCHANGED catalog
             \/ /\ catalog' = [catalog EXCEPT ![name] = ExecStart(@, DbName)]
                /\ Return(i, "startStreams", k, Call(t), NoErr)
                /\ UNCHANGED faults
    /\ UNCHANGED <<env, pc, idx, rs, fan, mu, excludeRules, result, before>>

\* ------------------------------------------------------------ specification
TaskIds == 1..3

Next ==
    \E i \in Invocations :
        \/ Start(i)
        \/ BuildSource(i)
        \/ BuildTarget(i)
        \/ CheckReshard(i)
        \/ ValidateTargets(i)
        \/ GetVSchema(i)
        \/ ReadRefStreams(i)
        \/ CopySchema(i)
        \/ CreateStreams(i)
        \/ StartStreams(i)
        \/ ForAllReturn(i)
        \/ \E k \in TaskIds :
              \/ ProbeTarget(i, k)
              \/ ReadSource(i, k)
              \/ LockSource(i, k)
              \/ ProcessRow(i, k)
              \/ FinishSource(i, k)
              \/ CopySchemaShard(i, k)
              \/ InsertStreams(i, k)
              \/ UpdateRunning(i, k)

Spec == Init /\ [][Next]_vars

\* ===================================================================
\* Properties
\* ===================================================================

\* The fan-out phases in the order the command runs them.
PhaseSeq == <<"validateTargets", "readRefStreams", "copySchema", "createStreams", "startStreams">>

\* The forAll of phase p of command i has been called and has returned.
Returned(i, p) == tasks[i][p] # <<>> /\ fan[i] # p

\* The tasks of a forAll whose f returned an error.
Failing(ts) == {k \in DOMAIN ts : ts[k].err # NoErr}

\* What the forAll of phase p returned to command i: its aggregate, <<>> for nil.
ForAllResult(i, p) ==
    IF pc[i] = "failed" /\ result[i].label = p THEN result[i].errors ELSE <<>>

Count(seq, e) == Cardinality({j \in DOMAIN seq : seq[j] = e})

\* The list a phase fans out over.
InputOf(i, p) == IF p = "readRefStreams" THEN rs[i].sourceShards ELSE rs[i].targetShards

\* C1: the phases of one command run in the order Build, Validate targets,
\* Read reference streams, Copy schema, Create streams, Start streams: a task
\* of a phase exists only when both lists of the build are complete and every
\* task of every earlier phase has returned, and has returned without error.
C1_PhaseOrder ==
    \A i \in Invocations : \A b \in DOMAIN PhaseSeq :
        tasks[i][PhaseSeq[b]] # <<>> =>
            /\ Len(rs[i].sourceShards) = Len(sources)
            /\ Len(rs[i].targetShards) = Len(targets)
            /\ b >= 2 => rs[i].vschema = vschema
            /\ \A a \in 1..(b - 1) :
                  /\ tasks[i][PhaseSeq[a]] # <<>>
                  /\ \A k \in DOMAIN tasks[i][PhaseSeq[a]] :
                        /\ tasks[i][PhaseSeq[a]][k].st = "done"
                        /\ tasks[i][PhaseSeq[a]][k].err = NoErr

\* A command with two sources and two targets that reached its last phase.
C1_Witness ==
    \E i \in Invocations :
        /\ tasks[i]["startStreams"] # <<>>
        /\ Len(tasks[i]["readRefStreams"]) >= 2
        /\ Len(tasks[i]["startStreams"]) >= 2

\* C2: forAll returns nil exactly when every f returned success, and
\* otherwise an aggregate holding one error for each failing task: as many
\* errors as failing tasks, and each error as often as tasks returned it.
C2_Aggregate ==
    \A i \in Invocations : \A p \in FanPhases :
        Returned(i, p) =>
            LET ts == tasks[i][p]
                ret == ForAllResult(i, p)
            IN /\ ret = <<>> <=> Failing(ts) = {}
               /\ Len(ret) = Cardinality(Failing(ts))
               /\ \A e \in Range(ret) \cup {ts[k].err : k \in Failing(ts)} :
                     Count(ret, e) = Cardinality({k \in Failing(ts) : ts[k].err = e})

\* A forAll that returned with two failing tasks and two errors.
C2_Witness ==
    \E i \in Invocations : \E p \in FanPhases :
        /\ Returned(i, p)
        /\ Cardinality(Failing(tasks[i][p])) >= 2
        /\ Len(ForAllResult(i, p)) >= 2

\* C3: f is called at most once per task at any time, and when forAll has
\* returned there is one task per element of its input, each called exactly
\* once and each returned, whether or not another task failed.
C3_EveryShardOnce ==
    \A i \in Invocations : \A p \in FanPhases :
        /\ \A k \in DOMAIN tasks[i][p] : tasks[i][p][k].calls <= 1
        /\ Returned(i, p) =>
              /\ DOMAIN tasks[i][p] = DOMAIN InputOf(i, p)
              /\ \A k \in DOMAIN tasks[i][p] :
                    /\ tasks[i][p][k].shard = InputOf(i, p)[k]
                    /\ tasks[i][p][k].calls = 1
                    /\ tasks[i][p][k].st = "done"

\* A forAll that returned after one task failed and another succeeded.
C3_Witness ==
    \E i \in Invocations : \E p \in FanPhases :
        /\ Returned(i, p)
        /\ \E k, l \in DOMAIN tasks[i][p] :
              /\ tasks[i][p][k].err # NoErr
              /\ tasks[i][p][l].err = NoErr
              /\ tasks[i][p][l].calls = 1

\* buildResharder of command i is past both of its loops.
PastLoops(i) ==
    /\ pc[i] \notin {"idle", "buildSources", "buildTargets"}
    /\ ~(pc[i] = "failed" /\ result[i].label = "")

\* buildResharder of command i has returned a resharder.
Built(i) ==
    \/ pc[i] \in {"copySchema", "createStreams", "startStreams", "done"}
    \/ pc[i] = "failed" /\ result[i].label \in {"copySchema", "createStreams", "startStreams"}

\* C4: buildResharder gets past its loops, and so returns a resharder, only
\* when every named source is primary-serving and no named target is; every
\* element of sourceShards was read serving and every element of
\* targetShards non-serving, and a returned resharder holds all of both.
C4_ServingChecked ==
    \A i \in Invocations :
        /\ \A k \in DOMAIN rs[i].sourceShards : rs[i].sourceShards[k].isPrimaryServing
        /\ \A k \in DOMAIN rs[i].targetShards : ~rs[i].targetShards[k].isPrimaryServing
        /\ PastLoops(i) =>
              /\ \A k \in DOMAIN sources : serving[sources[k]]
              /\ \A k \in DOMAIN targets : ~serving[targets[k]]
        /\ Built(i) /\ tasks[i]["copySchema"] # <<>> =>
              /\ [k \in DOMAIN rs[i].sourceShards |-> rs[i].sourceShards[k].name] = sources
              /\ [k \in DOMAIN rs[i].targetShards |-> rs[i].targetShards[k].name] = targets

\* A command that buildResharder refused for a target that is serving.
C4_Witness ==
    \E i \in Invocations :
        /\ pc[i] = "failed"
        /\ result[i] = [label |-> "", errors |-> <<ErrTargetServing>>]
        /\ \E k \in DOMAIN targets : serving[targets[k]]
        /\ Len(rs[i].sourceShards) = Len(sources)

\* C5: when validateTargets has returned, a probe that found a row for the
\* target's db_name has made the command fail in validateTargets with the
\* 'some streams already exist' error and the command has issued no insert
\* and no update; when every probe returned and found no such row, the
\* phase has succeeded.
C5_ProbeDecides ==
    \A i \in Invocations :
        Returned(i, "validateTargets") =>
            LET ts == tasks[i]["validateTargets"]
            IN /\ (\E k \in DOMAIN ts : ts[k].rows # <<>>) =>
                     /\ pc[i] = "failed"
                     /\ result[i].label = "validateTargets"
                     /\ ErrStreamsExist \in Range(result[i].errors)
                     /\ writes[i] = NoWrites
               /\ (\A k \in DOMAIN ts : ts[k].rows = <<>> /\ ts[k].err # ErrExec) =>
                     ~(pc[i] = "failed" /\ result[i].label = "validateTargets")
               /\ \A k \in DOMAIN ts :
                     ts[k].err # ErrExec =>
                        ts[k].rows = ExecProbe(before[i][ts[k].shard.name], DbName)

\* A command that failed in validateTargets because one of two targets
\* held a row, the other being empty.
C5_Witness ==
    \E i \in Invocations :
        /\ Returned(i, "validateTargets")
        /\ pc[i] = "failed"
        /\ result[i].errors = <<ErrStreamsExist>>
        /\ \E k, l \in DOMAIN tasks[i]["validateTargets"] :
              /\ tasks[i]["validateTargets"][k].rows # <<>>
              /\ tasks[i]["validateTargets"][l].rows = <<>>
              /\ tasks[i]["validateTargets"][l].err = NoErr

\* Command i ran into a failure in one of its first three phases.
FailedEarly(i) ==
    \/ pc[i] = "failed" /\ result[i].label \in {"", "ValidateForReshard", "GetVSchema"}
    \/ \E p \in {"validateTargets", "readRefStreams"} : Failing(tasks[i][p]) # {}

\* Command i is in one of its first three phases.
Early(i) ==
    pc[i] \in {"buildSources", "buildTargets", "validateForReshard", "validateTargets",
              "getVSchema", "readRefStreams"}

\* C6: a command in its first three phases, or one in which a step of those
\* phases failed, has issued no insert and no update, and as long as no
\* later command is issued every catalog is as it was when the command was.
C6_EarlyFailureWritesNothing ==
    \A i \in Invocations :
        Early(i) \/ FailedEarly(i) =>
            /\ writes[i] = NoWrites
            /\ (~concurrent /\ \A j \in Invocations : j > i => pc[j] = "idle") =>
                  catalog = before[i]

\* A command that failed in readRefStreams over a target whose catalog
\* is not empty.
C6_Witness ==
    \E i \in Invocations :
        /\ pc[i] = "failed"
        /\ result[i].label = "readRefStreams"
        /\ \E k \in DOMAIN targets : catalog[targets[k]] # <<>>

\* C7: a command issued after one that ran to completion never gets past
\* validateTargets and issues no insert and no update; when it returns it
\* has failed, in validateTargets unless a topology lookup failed before,
\* and with 'some streams already exist' for every target it could probe.
C7_SecondRunRejected ==
    \A i, j \in Invocations :
        (~concurrent /\ j < i /\ pc[j] = "done" /\ pc[i] # "idle") =>
            /\ pc[i] \in {"buildSources", "buildTargets", "validateForReshard",
                          "validateTargets", "failed"}
            /\ writes[i] = NoWrites
            /\ pc[i] = "failed" =>
                  \/ result[i] \in {[label |-> "", errors |-> <<e>>] : e \in {ErrGetShard, ErrGetTablet}}
                  \/ /\ result[i].label = "validateTargets"
                     /\ Len(result[i].errors) = Len(targets)
                     /\ \A e \in Range(result[i].errors) : e \in {ErrStreamsExist, ErrExec}

\* A second command that failed in validateTargets after the first ran
\* to completion.
C7_Witness ==
    \E i, j \in Invocations :
        /\ j < i
        /\ pc[j] = "done"
        /\ pc[i] = "failed"
        /\ result[i].label = "validateTargets"
        /\ \A e \in Range(result[i].errors) : e = ErrStreamsExist

\* The rows the read of readRefStreams returns from source s.
ReturnedRows(s) == ExecReadStreams(catalog[s], DbName)

\* Every row source s returns is named, parses and classifies.
WellFormed(s) ==
    \A k \in DOMAIN ReturnedRows(s) :
        LET row == ReturnedRows(s)[k]
        IN /\ row.workflow # ""
           /\ row.source.parses
           /\ blsIsReference(vschema, row.source.bls).err = NoErr

\* The reference streams source s exposes, and their keys.
RefRowsOf(s) ==
    {ReturnedRows(s)[k] : k \in {j \in DOMAIN ReturnedRows(s) :
        blsIsReference(vschema, ReturnedRows(s)[j].source.bls).isReference}}

RefKeysOf(s) == {RefKey(r.workflow, r.source.bls) : r \in RefRowsOf(s)}

\* All sources expose the same set of reference keys.
SameKeys == \A s1, s2 \in Range(sources) : RefKeysOf(s1) = RefKeysOf(s2)

\* C8: when every read succeeded and every row returned is well formed,
\* readRefStreams succeeds, whatever the interleaving of its tasks, exactly
\* when all sources expose the same set of reference keys, and otherwise
\* fails with a 'streams are mismatched across source shards' error.
C8_SameKeysDecide ==
    \A i \in Invocations :
        (/\ Returned(i, "readRefStreams")
         /\ \A k \in DOMAIN tasks[i]["readRefStreams"] :
               tasks[i]["readRefStreams"][k].err # ErrExec
         /\ \A s \in Range(sources) : WellFormed(s)) =>
            /\ Failing(tasks[i]["readRefStreams"]) = {} <=> SameKeys
            /\ ~SameKeys => \E e \in Range(ForAllResult(i, "readRefStreams")) :
                               e \in {ErrMismatchKey, ErrMismatchLeft}

\* The refStreams entry made of a row.
EntryOf(row) ==
    [key |-> RefKey(row.workflow, row.source.bls), workflow |-> row.workflow,
     bls |-> row.source.bls, cell |-> row.cell, tabletTypes |-> row.tabletTypes]

RECURSIVE MapOfRows(_)
\* The map a task with mustCreate builds from the rows it was returned.
MapOfRows(rows) ==
    IF rows = <<>> THEN {}
    ELSE LET row == rows[Len(rows)]
             front == MapOfRows(SubSeq(rows, 1, Len(rows) - 1))
         IN IF blsIsReference(vschema, row.source.bls).isReference
            THEN MapPut(front, EntryOf(row))
            ELSE front

\* C9: when readRefStreams has succeeded, refStreams (its keys and the
\* workflow, BinlogSource, cell and tabletTypes stored under each) is the map
\* any of the sources would have defined had its task locked first.
C9_DefinerIndependent ==
    \A i \in Invocations :
        (Returned(i, "readRefStreams") /\ Failing(tasks[i]["readRefStreams"]) = {}) =>
            \A s \in Range(sources) : rs[i].refStreams = MapOfRows(ReturnedRows(s))

\* The rows command i inserted on target t, and the reference rows among them.
Inserted(i, t) ==
    IF writes[i][t].inserted = 0 THEN <<>>
    ELSE SubSeq(catalog[t], Len(before[i][t]) + 1, Len(catalog[t]))

RefInserted(i, t) == SelectSeq(Inserted(i, t), LAMBDA r : r.workflow # Workflow)

\* The streams source s exposes that are not reference streams.
ShardedRowsOf(s) == {ReturnedRows(s)[k] : k \in DOMAIN ReturnedRows(s)} \ RefRowsOf(s)

\* All sources expose the same reference streams.
SameRefRows == \A s1, s2 \in Range(sources) : RefRowsOf(s1) = RefRowsOf(s2)

\* An inserted row carries stream r: its BinlogSource, workflow, cell, tabletTypes.
Carries(row, r) ==
    /\ row.source = r.source
    /\ row.workflow = r.workflow
    /\ row.cell = r.cell
    /\ row.tabletTypes = r.tabletTypes

\* C10: when all sources expose the same reference streams R (a stream being
\* identified by its workflow, keyspace and shard), a target whose insert of
\* createStreams succeeded has received one reference row for each stream of
\* R and no other: each carries the BinlogSource, the workflow name, the cell
\* and the tabletTypes of an element of R, no two are for the same stream,
\* and no row inserted carries a sharded stream of a source.
C10_ReferenceStreamsCopied ==
    \A i \in Invocations : \A k \in DOMAIN tasks[i]["createStreams"] :
        LET t == tasks[i]["createStreams"][k]
            R == RefRowsOf(sources[1])
            all == Inserted(i, t.shard.name)
            ins == RefInserted(i, t.shard.name)
        IN (SameRefRows /\ t.st = "done" /\ t.err = NoErr) =>
              /\ Len(ins) = Cardinality(RefKeysOf(sources[1]))
              /\ \A j \in DOMAIN ins : \E r \in R : Carries(ins[j], r)
              /\ \A j, l \in DOMAIN ins :
                    j # l => EntryOf(ins[j]).key # EntryOf(ins[l]).key
              /\ \A j \in DOMAIN ins : ins[j].workflow # Workflow
              /\ \A j \in DOMAIN all : \A s \in Range(sources) :
                    \A r \in ShardedRowsOf(s) : ~Carries(all[j], r)

\* Two sources with the same reference stream, one of them with a sharded
\* stream as well, and a target that received its rows.
C10_Witness ==
    \E i \in Invocations : \E k \in DOMAIN tasks[i]["createStreams"] :
        LET t == tasks[i]["createStreams"][k]
        IN /\ t.st = "done" /\ t.err = NoErr
           /\ Len(sources) >= 2
           /\ SameRefRows
           /\ Len(RefInserted(i, t.shard.name)) >= 1
           /\ \E s \in Range(sources) : ShardedRowsOf(s) # {}

\* Key x (a first byte) lies in key range kr.
KeyIn(kr, x) == kr.Start <= x /\ (kr.End = 0 \/ x < kr.End)

\* Two key ranges share a key.
Overlap(a, b) == \E x \in 0..255 : KeyIn(a, x) /\ KeyIn(b, x)

\* The rows command i inserted on target t under the reshard's workflow name.
ShardedInserted(i, t) == SelectSeq(Inserted(i, t), LAMBDA r : r.workflow = Workflow)

\* The named sources whose key range shares a key with that of target t.
Feeding(t) == SelectSeq(sources, LAMBDA s : Overlap(KeyRangeOf(s), KeyRangeOf(t)))

\* C11: on a target whose insert of createStreams succeeded, the rows under
\* the reshard's workflow name are one per source whose key range shares a
\* key with the target's, each naming the keyspace and that source shard,
\* and there are as many of them as there are such sources.
C11_ShardedFanOut ==
    \A i \in Invocations : \A k \in DOMAIN tasks[i]["createStreams"] :
        LET t == tasks[i]["createStreams"][k]
            ins == ShardedInserted(i, t.shard.name)
        IN (t.st = "done" /\ t.err = NoErr) =>
              /\ Len(ins) = Len(Feeding(t.shard.name))
              /\ [j \in DOMAIN ins |-> ins[j].source.bls.shard] = Feeding(t.shard.name)
              /\ \A j \in DOMAIN ins : ins[j].source.bls.keyspace = Keyspace

\* A target fed by two of three sources that received its rows.
C11_Witness ==
    \E i \in Invocations : \E k \in DOMAIN tasks[i]["createStreams"] :
        LET t == tasks[i]["createStreams"][k]
        IN /\ t.st = "done" /\ t.err = NoErr
           /\ Len(sources) = 3
           /\ Len(ShardedInserted(i, t.shard.name)) = 2

\* ===================================================================
\* The classifier and the intersection test applied on their own
\* ===================================================================

MaxRules == 3

\* The table names a rule may match: a reference table, a sharded table,
\* a name the vschema lacks, and a scratch table of online DDL.
RuleTables == {"country", "t1", "nosuch"} \cup InternalOperationTables

RuleLists == UNION {[1..n -> {Rule(m, "") : m \in RuleTables}] : n \in 0..MaxRules}

\* Key ranges with bounds of at most one byte, the end after the start.
KeyBounds == {0, 64, 128, 192}
KeyRanges == {kr \in [Start : KeyBounds, End : KeyBounds] : kr.End = 0 \/ kr.Start < kr.End}

\* No command is issued.
NoCommand ==
    /\ commands = 0
    /\ sources = <<"-">>
    /\ targets = <<"-80", "80-">>
    /\ serving = [s \in Shards |-> s = "-"]
    /\ vschema = VSchemaWithReference
    /\ catalog = [s \in Shards |-> <<>>]
    /\ faults = 0
    /\ concurrent = FALSE
    /\ pc = [i \in Invocations |-> "idle"]
    /\ idx = [i \in Invocations |-> 1]
    /\ rs = [i \in Invocations |-> NewResharder]
    /\ fan = [i \in Invocations |-> ""]
    /\ tasks = [i \in Invocations |-> [p \in FanPhases |-> <<>>]]
    /\ allErrors = [i \in Invocations |-> [p \in FanPhases |-> <<>>]]
    /\ mu = [i \in Invocations |-> 0]
    /\ excludeRules = [i \in Invocations |-> <<>>]
    /\ result = [i \in Invocations |-> NoResult]
    /\ writes = [i \in Invocations |-> NoWrites]
    /\ before = [i \in Invocations |-> [s \in Shards |-> <<>>]]
    /\ mem = NoMem
    /\ ar = NewActionRepository

CallOf(op, args) == [op |-> op, args |-> args, done |-> FALSE, ret |-> <<>>]

FunctionInit ==
    /\ NoCommand
    /\ \/ \E vs \in VSchemas, rules \in RuleLists :
             call = CallOf("blsIsReference", [vs |-> vs, bls |-> BinlogSource("ks", "-", rules)])
       \/ \E vs \in VSchemas, m \in RuleTables :
             call = CallOf("identifyRuleType", [vs |-> vs, rule |-> Rule(m, "")])
       \/ \E a, b \in KeyRanges :
             call = CallOf("KeyRangeIntersect", [a |-> a, b |-> b])

\* The function returns ret.
Returns(ret) ==
    /\ ~call.done
    /\ call' = [call EXCEPT !.done = TRUE, !.ret = ret]
    /\ UNCHANGED <<sources, targets, serving, vschema, catalog, faults, commands, concurrent,
                   pc, idx, rs, fan, tasks, allErrors, mu, excludeRules, result, writes, before,
                   mem, ar>>

ApplyBlsIsReference ==
    /\ call.op = "blsIsReference"
    /\ Returns(blsIsReference(call.args.vs, call.args.bls))

ApplyIdentifyRuleType ==
    /\ call.op = "identifyRuleType"
    /\ Returns(identifyRuleType(call.args.vs, call.args.rule))

ApplyKeyRangeIntersect ==
    /\ call.op = "KeyRangeIntersect"
    /\ Returns([intersect |-> KeyRangeIntersect(call.args.a, call.args.b)])

FunctionNext ==
    \/ ApplyBlsIsReference
    \/ ApplyIdentifyRuleType
    \/ ApplyKeyRangeIntersect

FunctionSpec == FunctionInit /\ [][FunctionNext]_vars

\* A rule on a reference table of the vschema, on a table that is known and
\* is not a reference table, and on a table that is known at all.
OnReference(vs, rule) == \E t \in vs : t.name = rule.match /\ t.type = TypeReference

KnownTable(vs, rule) ==
    (\E t \in vs : t.name = rule.match) \/ rule.match \in InternalOperationTables

OnOther(vs, rule) == KnownTable(vs, rule) /\ ~OnReference(vs, rule)

\* The rules hold one on a reference table and one on another table.
ContainsBoth(vs, rules) ==
    \E j, l \in DOMAIN rules : OnReference(vs, rules[j]) /\ OnOther(vs, rules[l])

\* The rules before the first one whose table is not known.
KnownPrefix(vs, rules) ==
    SubSeq(rules, 1, CHOOSE n \in 0..Len(rules) :
                        /\ \A j \in 1..n : KnownTable(vs, rules[j])
                        /\ n < Len(rules) => ~KnownTable(vs, rules[n + 1]))

\* blsIsReference returned one of reference, sharded or an error.
OneOutcome(ret) ==
    /\ ret.isReference \in BOOLEAN
    /\ ret.err \in {NoErr, ErrMix, ErrNoTable}
    /\ ret.err # NoErr => ~ret.isReference

\* C12 as stated: blsIsReference returns one of reference, sharded or an
\* error, and the error of a mix exactly when the rules hold both a rule on
\* a reference table and a rule on a table that is not one.
C12_MixIffBoth ==
    (call.op = "blsIsReference" /\ call.done) =>
        /\ OneOutcome(call.ret)
        /\ call.ret.err = ErrMix <=> ContainsBoth(call.args.vs, call.args.bls.rules)

\* C12 amended: blsIsReference returns one of reference, sharded or an
\* error; the error of a mix exactly when the rules before the first rule
\* on an unknown table hold both kinds; otherwise 'not found' exactly when
\* there is a rule on an unknown table; otherwise reference exactly when
\* there are rules and all of them are on reference tables.
C12_MixIffBothBeforeUnknown ==
    (call.op = "blsIsReference" /\ call.done) =>
        LET vs == call.args.vs
            rules == call.args.bls.rules
            mixed == ContainsBoth(vs, KnownPrefix(vs, rules))
            unknown == \E j \in DOMAIN rules : ~KnownTable(vs, rules[j])
        IN /\ OneOutcome(call.ret)
           /\ call.ret.err = ErrMix <=> mixed
           /\ call.ret.err = ErrNoTable <=> (~mixed /\ unknown)
           /\ call.ret.isReference <=>
                 (rules # <<>> /\ \A j \in DOMAIN rules : OnReference(vs, rules[j]))

\* blsIsReference returned 'not found' for rules that hold both kinds after
\* a rule on an unknown table.
C12_Witness ==
    /\ call.op = "blsIsReference"
    /\ call.done
    /\ call.ret.err = ErrNoTable
    /\ ContainsBoth(call.args.vs, call.args.bls.rules)
    /\ ~ContainsBoth(call.args.vs, KnownPrefix(call.args.vs, call.args.bls.rules))

\* C13: for a rule whose match is absent from the vschema, identifyRuleType
\* fails with 'not found in vschema' unless the name is that of an
\* internal-operation table, for which it answers sharded; for a rule whose
\* table is present it answers reference when the table's type is reference
\* and sharded otherwise.
C13_RuleType ==
    (call.op = "identifyRuleType" /\ call.done) =>
        LET vs == call.args.vs
            match == call.args.rule.match
            present == \E t \in vs : t.name = match
            internal == match \in InternalOperationTables
        IN /\ (~present /\ ~internal) =>
                 call.ret = [typ |-> StreamTypeUnknown, err |-> ErrNoTable]
           /\ (~present /\ internal) =>
                 call.ret = [typ |-> StreamTypeSharded, err |-> NoErr]
           /\ present =>
                 /\ call.ret.err = NoErr
                 /\ call.ret.typ \in {StreamTypeReference, StreamTypeSharded}
                 /\ call.ret.typ = StreamTypeReference <=>
                       \E t \in vs : t.name = match /\ t.type = TypeReference

\* identifyRuleType answered sharded for an internal-operation table that
\* the vschema lacks.
C13_Witness ==
    /\ call.op = "identifyRuleType"
    /\ call.done
    /\ call.args.rule.match \in InternalOperationTables
    /\ ~(\E t \in call.args.vs : t.name = call.args.rule.match)
    /\ call.ret = [typ |-> StreamTypeSharded, err |-> NoErr]

\* Command j failed in createStreams after its insert succeeded on a target
\* (and so failed on another).
PartialCreate(j) ==
    /\ pc[j] = "failed"
    /\ result[j].label = "createStreams"
    /\ \E k \in DOMAIN targets : writes[j][targets[k]].inserted > 0

\* C14: when createStreams of a command failed after inserting on some
\* target, every target still holds what it held before followed by the rows
\* the command inserted, all of them Stopped (a target whose insert succeeded
\* has rows, one whose insert failed has none); the command has issued no
\* update and no stream of the targets' db_name is Running; and a command
\* issued afterwards never gets past validateTargets, writes nothing, and
\* fails there unless a topology lookup failed before.
C14_NoRollback ==
    \A j \in Invocations :
        (~concurrent /\ PartialCreate(j)) =>
            /\ \A k \in DOMAIN targets :
                  LET t == targets[k]
                  IN /\ SubSeq(catalog[t], 1, Len(before[j][t])) = before[j][t]
                     /\ \A n \in DOMAIN Inserted(j, t) : Inserted(j, t)[n].state = "Stopped"
                     /\ \A n \in DOMAIN catalog[t] :
                           catalog[t][n].dbName = DbName => catalog[t][n].state = "Stopped"
                     /\ writes[j][t].updates = 0
            /\ \A k \in DOMAIN tasks[j]["createStreams"] :
                  LET task == tasks[j]["createStreams"][k]
                  IN /\ (task.err = NoErr) = (Inserted(j, task.shard.name) # <<>>)
                     /\ (task.err = NoErr) = (writes[j][task.shard.name].inserted = 1)
            /\ tasks[j]["startStreams"] = <<>>
            /\ \A i \in Invocations :
                  (i > j /\ pc[i] # "idle") =>
                     /\ pc[i] \in {"buildSources", "buildTargets", "validateForReshard",
                                   "validateTargets", "failed"}
                     /\ writes[i] = NoWrites
                     /\ pc[i] = "failed" =>
                           \/ result[i] \in {[label |-> "", errors |-> <<e>>] :
                                                e \in {ErrGetShard, ErrGetTablet}}
                           \/ /\ result[i].label = "validateTargets"
                              /\ \E e \in Range(result[i].errors) : e \in {ErrStreamsExist, ErrExec}

\* A command that failed in validateTargets with 'some streams already
\* exist' after the one before inserted on one target and failed on another.
C14_Witness ==
    \E i, j \in Invocations :
        /\ j < i
        /\ PartialCreate(j)
        /\ \E k \in DOMAIN targets : writes[j][targets[k]].inserted = 0
        /\ pc[i] = "failed"
        /\ result[i].label = "validateTargets"
        /\ ErrStreamsExist \in Range(result[i].errors)

\* startStreams of command i has been called.
Started6(i) ==
    \/ pc[i] \in {"startStreams", "done"}
    \/ pc[i] = "failed" /\ result[i].label = "startStreams"

\* C15: the rows a command inserted are Stopped as long as its startStreams
\* has not been called; a row it inserted is Running only when its inserts
\* on all targets have succeeded; and when startStreams has returned success
\* every target holds rows of the command and every row of the targets'
\* db_name, sharded or reference, is Running.
C15_StoppedThenRunning ==
    \A i \in Invocations :
        ~concurrent =>
            /\ \A k \in DOMAIN targets :
                  \A n \in DOMAIN Inserted(i, targets[k]) :
                      LET row == Inserted(i, targets[k])[n]
                      IN /\ row.state \in {"Stopped", "Running"}
                         /\ ~Started6(i) => row.state = "Stopped"
                         /\ row.state = "Running" =>
                               \A l \in DOMAIN targets : writes[i][targets[l]].inserted = 1
            /\ pc[i] = "done" =>
                  \A k \in DOMAIN targets :
                      /\ Inserted(i, targets[k]) # <<>>
                      /\ \A n \in DOMAIN catalog[targets[k]] :
                            catalog[targets[k]][n].dbName = DbName =>
                               catalog[targets[k]][n].state = "Running"

\* A command that ran to completion on two targets, each with a reference
\* row among its rows.
C15_Witness ==
    \E i \in Invocations :
        /\ pc[i] = "done"
        /\ Len(targets) >= 2
        /\ \A k \in DOMAIN targets :
              /\ RefInserted(i, targets[k]) # <<>>
              /\ \A n \in DOMAIN Inserted(i, targets[k]) :
                    Inserted(i, targets[k])[n].state = "Running"

\* ===================================================================
\* createStreams slice by slice
\* ===================================================================
\* A slice is a backing array and a length; an append writes in place when
\* the array has room and into a new array otherwise. How much room a new
\* array has is up to the runtime: at most MaxSpare slots beyond the need.
\* An array is named after the variable that holds the slice made with it:
\* the array a variable had before is out of reach once the variable is
\* assigned again.

MaxSpare == 1

VSchemaTwoReferences ==
    {Table("country", TypeReference), Table("region", TypeReference), Table("t1", TypeSharded)}

ZeroRule == Rule("", "")

\* The arrays of excludeRules and of the k-th task's copyExcludeRules and
\* filter.Rules; a nil slice has array 0.
ExcludeArray == 1
CopyArray(k) == 2 * k
FilterArray(k) == 2 * k + 1

Cap(arrays, s) == IF s.arr = 0 THEN 0 ELSE Len(arrays[s.arr])

\* The elements a slice shows.
Elems(arrays, s) == IF s.arr = 0 THEN <<>> ELSE SubSeq(arrays[s.arr], 1, s.len)

\* A new backing array of capacity c that begins with elems, for variable a.
Alloc(arrays, a, elems, c) ==
    [arrays |-> [arrays EXCEPT ![a] = [j \in 1..c |-> IF j <= Len(elems) THEN elems[j]
                                                                          ELSE ZeroRule]],
     slice  |-> [arr |-> a, len |-> Len(elems)]]

\* a = append(s, r): the heaps and slices it may give.
GoAppend(arrays, a, s, r) ==
    IF s.len < Cap(arrays, s)
    THEN {[arrays |-> [arrays EXCEPT ![s.arr][s.len + 1] = r],
           slice  |-> [arr |-> s.arr, len |-> s.len + 1]]}
    ELSE {Alloc(arrays, a, Append(Elems(arrays, s), r), c) :
             c \in (s.len + 1)..(s.len + 1 + MaxSpare)}

\* The template itself handed to the task.
copyExcludeAlias(arrays, a, s) == {[arrays |-> arrays, slice |-> s]}

\* `copyExcludeRules := append([]*binlogdatapb.Rule(nil), excludeRules...)`.
copyExclude(arrays, a, s) ==
    IF s.len = 0
    THEN {[arrays |-> arrays, slice |-> NilSlice]}
    ELSE {Alloc(arrays, a, Elems(arrays, s), c) : c \in s.len..(s.len + MaxSpare)}

\* The resharder is built and createStreams begins; the sources run no
\* reference streams.
SliceInit ==
    \E cfg \in {c \in Configs : ReadsCatalogs(c, {})},
       vs \in VSchemas \cup {VSchemaTwoReferences} :
    \E order \in Perms(ReferenceTables(vs)) :
        /\ commands = 1
        /\ sources = cfg.sources
        /\ targets = cfg.targets
        /\ serving = [s \in Shards |-> s \in Range(cfg.sources)]
        /\ vschema = vs
        /\ catalog = [s \in Shards |-> <<>>]
        /\ faults = 0
        /\ concurrent = FALSE
        /\ pc = [i \in Invocations |-> IF i = 1 THEN "createStreams" ELSE "idle"]
        /\ idx = [i \in Invocations |-> 1]
        /\ rs = [i \in Invocations |-> NewResharder]
        /\ fan = [i \in Invocations |-> ""]
        /\ tasks = [i \in Invocations |-> [p \in FanPhases |-> <<>>]]
        /\ allErrors = [i \in Invocations |-> [p \in FanPhases |-> <<>>]]
        /\ mu = [i \in Invocations |-> 0]
        /\ excludeRules = [i \in Invocations |-> <<>>]
        /\ result = [i \in Invocations |-> NoResult]
        /\ writes = [i \in Invocations |-> NoWrites]
        /\ before = [i \in Invocations |-> [s \in Shards |-> <<>>]]
        /\ call = NoCall
        /\ mem = [arrays |-> [a \in 1..FilterArray(Len(cfg.targets)) |-> <<>>],
                  excl |-> NilSlice, tables |-> order, order |-> order, local |-> <<>>]
        /\ ar = NewActionRepository

SliceFrame ==
    UNCHANGED <<sources, targets, serving, vschema, catalog, faults, commands, concurrent,
                pc, idx, rs, fan, tasks, allErrors, mu, excludeRules, result, writes, before,
                call, ar>>

\* `excludeRules = append(excludeRules, &binlogdatapb.Rule{...})` for the
\* next reference table of the range.
AppendExclude ==
    /\ mem.local = <<>>
    /\ mem.order # <<>>
    /\ \E o \in GoAppend(mem.arrays, ExcludeArray, mem.excl,
                         Rule(Head(mem.order), "exclude")) :
          mem' = [mem EXCEPT !.arrays = o.arrays, !.excl = o.slice, !.order = Tail(@)]
    /\ SliceFrame

\* forAll starts f for every target; f makes its insert generator.
SpawnTargets ==
    /\ mem.local = <<>>
    /\ mem.order = <<>>
    /\ mem' = [mem EXCEPT !.local =
                  [k \in DOMAIN targets |->
                      [st |-> "copy", copy |-> NilSlice, filter |-> NilSlice, src |-> 1,
                       ig |-> NewInsertGenerator("Stopped", DbName)]]]
    /\ SliceFrame

\* f copies the exclude rules.
CopyRules(k) ==
    /\ k \in DOMAIN mem.local
    /\ mem.local[k].st = "copy"
    /\ \E o \in copyExclude(mem.arrays, CopyArray(k), mem.excl) :
          mem' = [mem EXCEPT !.arrays = o.arrays, !.local[k].copy = o.slice,
                             !.local[k].st = "loop"]
    /\ SliceFrame

\* The source does not intersect the target: `continue`.
SkipSource(k) ==
    /\ k \in DOMAIN mem.local
    /\ LET l == mem.local[k]
       IN /\ l.st = "loop"
          /\ l.src <= Len(sources)
          /\ ~KeyRangeIntersect(KeyRangeOf(targets[k]), KeyRangeOf(sources[l.src]))
          /\ mem' = [mem EXCEPT !.local[k].src = @ + 1]
    /\ SliceFrame

\* `Rules: append(copyExcludeRules, &binlogdatapb.Rule{...})`.
AppendFilter(k) ==
    /\ k \in DOMAIN mem.local
    /\ LET l == mem.local[k]
       IN /\ l.st = "loop"
          /\ l.src <= Len(sources)
          /\ KeyRangeIntersect(KeyRangeOf(targets[k]), KeyRangeOf(sources[l.src]))
          /\ \E o \in GoAppend(mem.arrays, FilterArray(k), l.copy,
                               KeyRangeRule(KeyRangeOf(targets[k]),
                                            KeyRangeOf(sources[l.src]))) :
                mem' = [mem EXCEPT !.arrays = o.arrays, !.local[k].filter = o.slice,
                                   !.local[k].st = "row"]
    /\ SliceFrame

\* ig.AddRow writes the stream down with the rules its filter shows now.
AddShardedRow(k) ==
    /\ k \in DOMAIN mem.local
    /\ LET l == mem.local[k]
           bls == [keyspace |-> Keyspace, shard |-> sources[l.src],
                   rules |-> Elems(mem.arrays, l.filter),
                   stopAfterCopy |-> StopAfterCopy, onDdl |-> OnDDL]
       IN /\ l.st = "row"
          /\ mem' = [mem EXCEPT !.local[k].ig =
                                    AddRow(@, Workflow, bls, "", Cell, TabletTypes,
                                           "Reshard", "None", DeferSecondaryKeys),
                                !.local[k].src = @ + 1,
                                !.local[k].st = "loop"]
    /\ SliceFrame

\* The sources are done: the query is made of the rows added.
MakeQuery(k) ==
    /\ k \in DOMAIN mem.local
    /\ LET l == mem.local[k]
       IN /\ l.st = "loop"
          /\ l.src > Len(sources)
          /\ mem' = [mem EXCEPT !.local[k].st = "done"]
    /\ SliceFrame

SliceNext ==
    \/ AppendExclude
    \/ SpawnTargets
    \/ \E k \in TaskIds :
          \/ CopyRules(k)
          \/ SkipSource(k)
          \/ AppendFilter(k)
          \/ AddShardedRow(k)
          \/ MakeQuery(k)

SliceSpec == SliceInit /\ [][SliceNext]_vars

\* The shards of the command as the resharder holds them.
InfoOf(names) == [k \in DOMAIN names |-> ShardInfo(names[k])]

\* The template has room after its last rule.
SpareRoom == mem.excl.len > 0 /\ Cap(mem.arrays, mem.excl) > mem.excl.len

\* C16: each target's task builds its filters from its own copy of the
\* exclude rules: whatever the interleaving of the tasks' appends, the rows a
\* task hands to its insert are the rows it would make running alone, with
\* the exclude rules followed by the target's own key range, and the shared
\* excludeRules list shows the rules it was built with throughout.
C16_OwnCopy ==
    mem.local # <<>> =>
        /\ Elems(mem.arrays, mem.excl) = ExcludeRules(mem.tables)
        /\ \A k \in DOMAIN mem.local :
              mem.local[k].st = "done" =>
                  mem.local[k].ig.rows =
                      streamRows(ShardInfo(targets[k]), InfoOf(sources),
                                 ExcludeRules(mem.tables), <<>>)

\* Two targets' tasks have appended their rules and finished while the
\* shared list had room for one more rule.
C16_Witness ==
    /\ SpareRoom
    /\ \E a, b \in DOMAIN mem.local :
          /\ a # b
          /\ mem.local[a].st = "done" /\ mem.local[a].ig.rows # <<>>
          /\ mem.local[b].st = "done" /\ mem.local[b].ig.rows # <<>>
          /\ mem.local[a].ig.rows # mem.local[b].ig.rows

\* C17: within one invocation each target primary receives at most one
\* stream-insert RPC and at most one state-update RPC, shards that are not
\* targets receive none, and an insert that succeeded carried all of the
\* target's rows, one per feeding source and one per reference stream the
\* resharder holds.
C17_OneRpcPerTarget ==
    \A i \in Invocations :
        /\ \A t \in Shards :
              /\ writes[i][t].inserts <= 1
              /\ writes[i][t].updates <= 1
              /\ t \notin Range(targets) =>
                    writes[i][t].inserts = 0 /\ writes[i][t].updates = 0
        /\ \A k \in DOMAIN tasks[i]["createStreams"] :
              LET t == tasks[i]["createStreams"][k]
              IN (t.st = "done" /\ t.err = NoErr) =>
                    Len(Inserted(i, t.shard.name)) =
                        Len(Feeding(t.shard.name)) + Cardinality(rs[i].refStreams)

\* A command that ended well after sending both of its RPCs to a target,
\* the insert carrying a sharded and a reference row.
C17_Witness ==
    \E i \in Invocations : \E t \in Range(targets) :
        /\ writes[i][t].inserted = 1 /\ writes[i][t].updates = 1
        /\ rs[i].refStreams # {}
        /\ Len(Inserted(i, t)) > 1
        /\ pc[i] = "done"

\* The key range without bounds, written "-": the entire key space.
EmptyRange == [Start |-> 0, End |-> 0]

\* The intersection test was applied to a and b and gave ret.
Intersected(a, b, ret) ==
    /\ call.op = "KeyRangeIntersect"
    /\ call.done
    /\ call.args = [a |-> a, b |-> b]
    /\ call.ret = [intersect |-> ret]

\* C18 as stated: the intersection test is commutative and an empty range
\* intersects nothing.
C18_EmptyIntersectsNothing ==
    \A a, b \in KeyRanges : \A ret \in BOOLEAN :
        Intersected(a, b, ret) =>
            /\ ret = KeyRangeIntersect(b, a)
            /\ (a = EmptyRange \/ b = EmptyRange) => ~ret

\* C18, amended: the intersection test is commutative and tells whether the
\* two ranges share a key; the empty range, which is the entire key space,
\* intersects every range.
C18_EmptyIntersectsAll ==
    \A a, b \in KeyRanges : \A ret \in BOOLEAN :
        Intersected(a, b, ret) =>
            /\ ret = KeyRangeIntersect(b, a)
            /\ ret = Overlap(a, b)
            /\ (a = EmptyRange \/ b = EmptyRange) => ret

\* The test was applied to the empty range and a range with both bounds
\* and found them intersecting.
C18_Witness ==
    \E b \in KeyRanges :
        /\ b.Start # 0 /\ b.End # 0
        /\ Intersected(EmptyRange, b, TRUE)

\* Every source of command i ran the reference stream country_ref and no
\* other stream when the command was issued, and the vschema has the
\* reference table country.
CountryRefOnSources(i) ==
    /\ pc[i] # "idle"
    /\ vschema = VSchemaWithReference
    /\ \A s \in Range(sources) : before[i][s] = <<SourceRowOf(1)>>

\* Scenario S3 is the command i.
ScenarioS3(i) ==
    /\ sources = <<"-80", "80-">>
    /\ targets = S3Targets
    /\ CountryRefOnSources(i)

\* Target t of command i holds n sharded rows inserted by it, each with a
\* filter that begins with the exclude rule of country, and one reference
\* row, that of the sources.
S3Rows(i, t, n) ==
    LET ins == ShardedInserted(i, t)
        ref == RefInserted(i, t)
    IN /\ Len(ins) = n
       /\ \A j \in DOMAIN ins : Head(ins[j].source.bls.rules) = Rule("country", "exclude")
       /\ Len(ref) = 1
       /\ Carries(ref[1], SourceRowOf(1))

\* C19 as stated: in scenario S3 the reshard succeeds and each target gets
\* one sharded stream whose filter begins with the exclude rule of country
\* plus one reference stream identical to the source-side one.
C19_ScenarioS3Succeeds ==
    \A i \in Invocations :
        (ScenarioS3(i) /\ faults = 0 /\ pc[i] \in {"done", "failed"}) =>
            /\ pc[i] = "done"
            /\ \A t \in Range(targets) : S3Rows(i, t, 1)

\* C19, amended: scenario S3 names shard 80- as a serving source and as a
\* non-serving target, and the shard is one or the other: the command fails
\* in buildResharder's loops (a source not serving, a target serving, or a
\* failed lookup) before any phase runs and writes nothing. With the same
\* streams and vschema and lists the resharder accepts, a target whose
\* insert succeeded holds one sharded row per feeding source, each filter
\* beginning with the exclude rule of country, and one reference row
\* identical to the source-side one.
C19_ScenarioS3Rejected ==
    \A i \in Invocations :
        /\ ScenarioS3(i) =>
              /\ pc[i] \in {"buildSources", "buildTargets", "failed"}
              /\ pc[i] = "failed" =>
                    /\ result[i].label = ""
                    /\ result[i].errors \in {<<ErrSourceNotServing>>, <<ErrTargetServing>>,
                                             <<ErrGetShard>>, <<ErrGetTablet>>}
              /\ writes[i] = NoWrites
              /\ catalog = before[i]
        /\ CountryRefOnSources(i) =>
              \A k \in DOMAIN tasks[i]["createStreams"] :
                  LET t == tasks[i]["createStreams"][k]
                  IN (t.st = "done" /\ t.err = NoErr) =>
                        S3Rows(i, t.shard.name, Len(Feeding(t.shard.name)))

\* Scenario S3 was issued with shard 80- serving and was refused at the
\* targets' loop.
C19_Witness ==
    \E i \in Invocations :
        /\ ScenarioS3(i)
        /\ serving["80-"]
        /\ pc[i] = "failed"
        /\ result[i].errors = <<ErrTargetServing>>

\* Phase q comes after phase p.
Later(p, q) ==
    \E a, b \in DOMAIN PhaseSeq : PhaseSeq[a] = p /\ PhaseSeq[b] = q /\ a < b

\* The forAll of phase p of command i returned and no task of it failed.
Clean(i, p) == Returned(i, p) /\ Failing(tasks[i][p]) = {}

\* No command was issued after command i: its resharder is still there.
Current(i) == \A j \in Invocations : j > i => pc[j] = "idle"

\* The errors the failing tasks of phase p of command i returned.
Causes(i, p) == {tasks[i][p][k].err : k \in Failing(tasks[i][p])}

InSection(ts) == {k \in DOMAIN ts : ts[k].st = "locked"}
Definers(ts) == {k \in DOMAIN ts : ts[k].mustCreate}

\* One step of command i as the mutex of readRefStreams sees it.
MutexStep(i) ==
    LET ts == tasks[i]["readRefStreams"]
        ts2 == tasks'[i]["readRefStreams"]
        reading == pc[i] = "readRefStreams" /\ pc'[i] = "readRefStreams" /\ ts # <<>>
    IN /\ InSection(ts2) = IF mu'[i] = 0 THEN {} ELSE {mu'[i]}
       /\ Cardinality(Definers(ts2)) <= 1
       /\ (ts2 # <<>> /\ ~rs'[i].refNil) => Cardinality(Definers(ts2)) = 1
       /\ (reading /\ rs'[i] # rs[i]) =>
             \E k \in DOMAIN ts : k \in InSection(ts2) \cup InSection(ts)
                                  /\ k \in {mu[i], mu'[i]}
       /\ \A k \in InSection(ts2) \ InSection(ts) :
             /\ mu[i] = 0
             /\ ts2[k].mustCreate = rs[i].refNil
             /\ ~rs[i].refNil => ts2[k].ref = Keys(rs[i].refStreams)
       /\ \A k \in DOMAIN ts2 :
             ts2[k].st \in {"spawned", "read"} => ~ts2[k].mustCreate

\* C21: in readRefStreams the map is read and written only by the task
\* that holds the mutex: at most one source task is between Lock and Unlock,
\* it is the holder, the resharder's map changes only in its steps, and the
\* task that takes the mutex while the map is nil, the first to take it, is
\* the one and only task that defines the map; every later one copies the
\* keys of the map as it is.
C21_MutexGuardsMap == [][\A i \in Invocations : MutexStep(i)]_vars

\* A second source holds the mutex with the keys of the map the first
\* source defined.
C21_Witness ==
    \E i \in Invocations : \E a, b \in DOMAIN tasks[i]["readRefStreams"] :
        LET ts == tasks[i]["readRefStreams"]
        IN /\ a # b
           /\ ts[a].st = "done" /\ ts[a].mustCreate /\ ts[a].err = NoErr
           /\ ts[b].st = "locked" /\ ~ts[b].mustCreate /\ ts[b].ref # {}
           /\ mu[i] = b

\* The rules of a sharded stream made for target t: the exclude rules of
\* the vschema's reference tables, each once, then the target's key range.
ShardedFilter(rules, t) ==
    LET n == Len(rules)
        refs == ReferenceTables(vschema)
    IN /\ n = Cardinality(refs) + 1
       /\ {rules[x] : x \in 1..(n - 1)} = {Rule(name, "exclude") : name \in refs}
       /\ rules[n] = Rule("/.*", KeyRangeString(KeyRangeOf(t)))

\* C22: every sharded stream a target's task writes down has a filter made
\* of one exclude rule for each reference table of the vschema and for no
\* other table, followed by one last rule matching /.* whose filter is the
\* key range of the target, whatever the key range of the source.
C22_FilterShape ==
    \A k \in DOMAIN mem.local :
        \A j \in DOMAIN mem.local[k].ig.rows :
            LET bls == mem.local[k].ig.rows[j].source.bls
            IN /\ ShardedFilter(bls.rules, targets[k])
               /\ bls.shard \in Range(sources)

\* With two reference tables, a target has its streams from two sources,
\* neither of which has the target's key range.
C22_Witness ==
    \E k \in DOMAIN mem.local :
        LET rows == mem.local[k].ig.rows
        IN /\ mem.local[k].st = "done"
           /\ Cardinality(ReferenceTables(vschema)) = 2
           /\ Len(rows) = 2
           /\ \A j \in DOMAIN rows :
                 KeyRangeOf(rows[j].source.bls.shard) # KeyRangeOf(targets[k])

\* A row of a stream that is named, parses and has no rule.
NoRules(row) == row.workflow # "" /\ row.source.parses /\ row.source.bls.rules = <<>>

\* The step of a source task of command i on a row without rules.
SkipsNoRules(i) ==
    \A k \in DOMAIN tasks[i]["readRefStreams"] :
        LET t == tasks[i]["readRefStreams"][k]
            t2 == tasks'[i]["readRefStreams"][k]
        IN (t.st = "locked" /\ t.rows # <<>> /\ NoRules(Head(t.rows)) /\ t2 # t) =>
              /\ blsIsReference(rs[i].vschema, Head(t.rows).source.bls)
                    = [isReference |-> FALSE, err |-> NoErr]
              /\ t2 = [t EXCEPT !.rows = Tail(@)]
              /\ rs'[i] = rs[i]
              /\ allErrors'[i] = allErrors[i]

\* C23: a source's stream without any rule is classified as sharded,
\* neither a reference stream nor an error, and readRefStreams passes over
\* it: the task goes on to its next row, the map of reference streams and
\* the task's keys to compare stay as they are, and no entry of the map is
\* ever a stream without rules.
C23_NoRulesSkipped ==
    [][\A i \in Invocations :
          /\ SkipsNoRules(i)
          /\ \A e \in rs'[i].refStreams : e.bls.rules # <<>>]_vars

\* Two sources agreed on a reference stream although only one of them runs
\* a stream without rules.
C23_Witness ==
    \E i \in Invocations : \E a, b \in DOMAIN tasks[i]["readRefStreams"] :
        LET ts == tasks[i]["readRefStreams"]
            has(s) == \E j \in DOMAIN ReturnedRows(s) : NoRules(ReturnedRows(s)[j])
        IN /\ a # b
           /\ ts[a].st = "done" /\ ts[a].err = NoErr /\ has(ts[a].shard.name)
           /\ ts[b].st = "done" /\ ts[b].err = NoErr /\ ~has(ts[b].shard.name)
           /\ rs[i].refStreams # {}

\* Source s returns a row with an empty workflow name.
Unnamed(s) == \E j \in DOMAIN ReturnedRows(s) : ReturnedRows(s)[j].workflow = ""

\* C24: when a source returns a stream with an empty workflow name, be it a
\* reference stream or not, a readRefStreams that has returned has failed,
\* whatever the order in which the source tasks ran: the task of that
\* source returned an error and the command ended in readRefStreams.
C24_UnnamedFails ==
    \A i \in Invocations :
        \A k \in DOMAIN tasks[i]["readRefStreams"] :
            LET t == tasks[i]["readRefStreams"][k]
            IN Unnamed(t.shard.name) =>
                  /\ t.st = "done" => t.err # NoErr
                  /\ Returned(i, "readRefStreams") =>
                        /\ pc[i] = "failed"
                        /\ result[i].label = "readRefStreams"
                        /\ result[i].errors # <<>>

\* A stream without a name that is not a reference stream made the phase
\* fail.
C24_Witness ==
    \E i \in Invocations : \E k \in DOMAIN tasks[i]["readRefStreams"] :
        LET t == tasks[i]["readRefStreams"][k]
            rows == ReturnedRows(t.shard.name)
        IN /\ Returned(i, "readRefStreams")
           /\ t.err = ErrNoWorkflow
           /\ \A j \in DOMAIN rows :
                 rows[j].workflow = "" =>
                    ~blsIsReference(vschema, rows[j].source.bls).isReference

\* A catalog without its FROZEN rows.
Unfrozen(cat) == SelectSeq(cat, LAMBDA r : r.message # "FROZEN")

\* Stream r (its workflow, BinlogSource, cell and tabletTypes) is that of a
\* row of a source that is not FROZEN.
FromLiveRow(r) ==
    \E s \in Range(sources) : \E j \in DOMAIN Unfrozen(catalog[s]) :
        Carries(r, Unfrozen(catalog[s])[j])

\* C25: FROZEN streams play no part in readRefStreams: what a source task
\* reads is what it would read from the catalog without its FROZEN rows, so
\* that catalogs differing in FROZEN rows only are read alike; every entry
\* of refStreams and every reference row inserted on a target is the stream
\* of a source row that is not FROZEN.
C25_FrozenIgnored ==
    \A i \in Invocations :
        /\ \A k \in DOMAIN tasks[i]["readRefStreams"] :
              LET t == tasks[i]["readRefStreams"][k]
              IN t.st = "read" =>
                    /\ t.rows = ExecReadStreams(Unfrozen(catalog[t.shard.name]), DbName)
                    /\ Len(t.rows) = Len(Unfrozen(ExecProbe(catalog[t.shard.name], DbName)))
        /\ \A e \in rs[i].refStreams :
              FromLiveRow([workflow |-> e.workflow, source |-> SourceText(e.bls),
                           cell |-> e.cell, tabletTypes |-> e.tabletTypes])
        /\ \A t \in Range(targets) :
              \A j \in DOMAIN RefInserted(i, t) : FromLiveRow(RefInserted(i, t)[j])

\* Two sources, only one of which holds a FROZEN stream, agreed on their
\* reference streams, and a target received them.
C25_Witness ==
    \E i \in Invocations : \E s1, s2 \in Range(sources) : \E t \in Range(targets) :
        /\ Unfrozen(catalog[s1]) # catalog[s1]
        /\ Unfrozen(catalog[s2]) = catalog[s2]
        /\ Clean(i, "readRefStreams")
        /\ RefInserted(i, t) # <<>>

RECURSIVE RunRows(_, _, _)
\* The loop of f over the rows of task t and the check after it, run in one
\* go on map refs: the error f returns and the map afterwards.
RunRows(vs, t, refs) ==
    IF t.rows = <<>>
    THEN [err |-> checkLeft(t.ref), refs |-> refs]
    ELSE LET r == processRow(vs, t, refs)
         IN IF r.ret
            THEN [err |-> r.err, refs |-> r.refs]
            ELSE RunRows(vs, [t EXCEPT !.rows = Tail(@), !.ref = r.ref], r.refs)

\* Source d takes the mutex first and defines the map.
DefinedBy(d) ==
    RunRows(vschema, [rows |-> ReturnedRows(d), ref |-> {}, mustCreate |-> TRUE], {})

\* readRefStreams fails when source d is the first to take the mutex and
\* every query succeeds.
FailsWith(d) ==
    \/ DefinedBy(d).err # NoErr
    \/ \E s \in Range(sources) \ {d} :
          RunRows(vschema, [rows |-> ReturnedRows(s), ref |-> Keys(DefinedBy(d).refs),
                            mustCreate |-> FALSE], DefinedBy(d).refs).err # NoErr

\* The queries of readRefStreams of command i all succeeded.
AllRead(i) == \A k \in DOMAIN tasks[i]["readRefStreams"] : tasks[i]["readRefStreams"][k].err # ErrExec

\* C26 as stated: for given source catalogs, whether readRefStreams fails is
\* the same whichever source task takes the mutex first: a readRefStreams
\* that returned after reading every source failed exactly when it fails
\* with any other source as the first.
C26_SameOutcome ==
    \A i \in Invocations :
        (Returned(i, "readRefStreams") /\ AllRead(i)) =>
            \A d \in Range(sources) :
                (Failing(tasks[i]["readRefStreams"]) # {}) = FailsWith(d)

\* A shard name is in both lists of the command.
SharedShards == Range(sources) \cap Range(targets)

\* What the loops of buildResharder return.
BuildLoopErrors == {<<ErrGetShard>>, <<ErrSourceNotServing>>, <<ErrTargetServing>>, <<ErrGetTablet>>}

\* C27: when a shard name is in the sources and in the targets, the command
\* never leaves the two loops of buildResharder except by failing there,
\* whatever the serving state of the shards: the error is unwrapped, it is
\* one of the two serving rejections unless a topology lookup failed, and
\* no query, insert or update is sent to any tablet.
C27_SharedShardFailsInBuild ==
    SharedShards # {} =>
        \A i \in Invocations :
            /\ pc[i] \in {"idle", "buildSources", "buildTargets", "failed"}
            /\ pc[i] = "failed" =>
                  /\ result[i].label = ""
                  /\ result[i].errors \in BuildLoopErrors
                  /\ faults = 0 =>
                        result[i].errors \in {<<ErrSourceNotServing>>, <<ErrTargetServing>>}
            /\ fan[i] = ""
            /\ \A p \in FanPhases : tasks[i][p] = <<>>
            /\ writes[i] = NoWrites
            /\ catalog = before[1] \/ pc[1] = "idle"

\* The shared shard is serving: it passed the sources' loop, every target
\* before it passed the targets' loop, and it was rejected as a target.
C27_Witness ==
    \E i \in Invocations :
        /\ pc[i] = "failed"
        /\ result[i].errors = <<ErrTargetServing>>
        /\ targets[idx[i]] \in SharedShards
        /\ idx[i] > 1
        /\ Len(rs[i].sourceShards) = Len(sources)

\* ------------------------------------------------------------------
\* The commands under fair scheduling: a goroutine that can take a step
\* takes one in the end (the Go scheduler starves no runnable goroutine),
\* every RPC returns, and a wg.Wait() that can return does.
TaskStep(i, k) ==
    \/ ProbeTarget(i, k)
    \/ ReadSource(i, k)
    \/ LockSource(i, k)
    \/ ProcessRow(i, k)
    \/ FinishSource(i, k)
    \/ CopySchemaShard(i, k)
    \/ InsertStreams(i, k)
    \/ UpdateRunning(i, k)

Fairness ==
    \A i \in Invocations :
        /\ WF_vars(ForAllReturn(i))
        /\ \A k \in TaskIds : WF_vars(TaskStep(i, k))

\* One command is followed to its end.
FairInit == Init /\ commands = 1

FairSpec == FairInit /\ [][Next]_vars /\ Fairness

\* C28: under fair scheduling every forAll returns: a command waiting at
\* the wg.Wait() of a phase (fan names the phase) gets past it in the end. In readRefStreams this needs
\* the mutex to be free again after every return of f, error returns
\* included, or a task that has read its rows would wait for it for ever.
C28_ForAllReturns ==
    \A i \in Invocations : (fan[i] # "") ~> (fan[i] = "")

\* A source task returned an error while holding the mutex, the mutex is
\* free, and another task that had not yet locked it has returned as well.
C28_Witness ==
    \E i \in Invocations : \E k1, k2 \in DOMAIN tasks[i]["readRefStreams"] :
        LET t1 == tasks[i]["readRefStreams"][k1]
            t2 == tasks[i]["readRefStreams"][k2]
        IN /\ k1 # k2
           /\ t1.st = "done" /\ t1.err \notin {NoErr, ErrExec}
           /\ t1.mustCreate
           /\ t2.st = "done" /\ t2.err # ErrExec /\ ~t2.mustCreate
           /\ mu[i] = 0
           /\ Returned(i, "readRefStreams")

\* ------------------------------------------------------------------
\* The operator issues the command NumInvocations times with the same
\* arguments without waiting for one to return: each invocation builds its
\* own resharder, and they share the topology and the tablets' catalogs.
\* The shards are in the state buildResharder wants and the targets are
\* clean, so that every invocation gets to its probes; the command splits
\* one shard or merges two.
ConcurrentInit ==
    \E cfg \in {c \in Configs : ReadsCatalogs(c, {}) /\ Len(c.sources) + Len(c.targets) <= 3},
       vs \in VSchemas :
    \E sp \in Placements(Range(cfg.sources), SourceRowsFor(cfg), 1) :
        Setup(cfg, vs, NumInvocations, sp, {}, {}, TRUE)

ConcurrentSpec == ConcurrentInit /\ [][Next]_vars

\* Invocation i inserted stream rows into the catalog of shard t.
InsertedInto(i, t) == writes[i][t].inserted > 0

\* C29 as stated: of the invocations running at the same time on the same
\* targets, at most one inserts stream rows into the catalog of any target.
C29_OneInserter ==
    \A t \in Range(targets) : \A i, j \in Invocations :
        (InsertedInto(i, t) /\ InsertedInto(j, t)) => i = j

\* ===================================================================
\* vtctld's repository of tablet actions
\* ===================================================================
\* Calls of ApplyTabletAction followed in one behaviour.
MaxApplied == 2

\* The action names a client may ask for and a server may register.
ActionNames == {"Ping", "DeleteTablet"}

\* The roles of go/acl an action may be registered with; "" is no role.
Roles == {"admin", "debugging"}

\* The functions registered as methods.
Methods == {"pingTablet", "deleteTablet"}

\* An HTTP request, as far as the access check reads it: the roles the
\* policy in force grants to its caller.
Requests == SUBSET Roles

TabletAliases == {[cell |-> "zone1", uid |-> 100]}

\* What a method returns: an output and an error (NoErr is nil).
ErrAction == "action failed"
MethodReturns ==
    {[output |-> "", err |-> NoErr], [output |-> "done", err |-> NoErr],
     [output |-> "", err |-> ErrAction]}

\* topoproto.TabletAliasString: the cell, a dash and the uid.
TabletAliasString(tabletAlias) == <<tabletAlias.cell, "-", tabletAlias.uid>>

\* acl.CheckAccessHTTP(r, role): nil when the policy grants role to the
\* caller of r.
ErrDenied == "not allowed"
CheckAccessHTTP(r, role) == IF role \in r THEN NoErr ELSE ErrDenied

\* func (ar *ActionResult) error(text string)
error(res, text) == [res EXCEPT !.Error = TRUE, !.Output = text]

\* Everything but the repository stays as it is.
RepositoryFrame ==
    UNCHANGED <<sources, targets, serving, vschema, catalog, faults, commands, concurrent,
                pc, idx, rs, fan, tasks, allErrors, mu, excludeRules, result, writes, before,
                call, mem>>

RepositoryInit == NoCommand /\ call = NoCall

\* ar.tabletActions[name] = actionTabletRecord{role: role, method: method}
RegisterTabletAction(name, role, method) ==
    /\ ar' = [ar EXCEPT !.tabletActions =
                 [n \in DOMAIN @ \cup {name} |->
                     IF n = name THEN [role |-> role, method |-> method] ELSE @[n]]]
    /\ RepositoryFrame

\* A repository that runs every action it knows without looking at its role.
RoleCheckedNever(role) == FALSE

\* `if action.role != ""`
RoleChecked(role) == role # ""

\* ApplyTabletAction returns res after invoking the methods of invoked.
Applied(actionName, r, res, invoked) ==
    ar' = [ar EXCEPT !.applied = @ + 1, !.actionName = actionName, !.r = r,
                     !.result = res, !.invoked = invoked]

\* ApplyTabletAction(ctx, actionName, tabletAlias, r)
ApplyTabletAction(actionName, tabletAlias, r) ==
    /\ ar.applied < MaxApplied
    /\ LET res == [Name |-> actionName, Parameters |-> TabletAliasString(tabletAlias),
                   Output |-> "", Error |-> FALSE]
           ok == actionName \in DOMAIN ar.tabletActions
       IN IF ~ok
          THEN Applied(actionName, r, error(res, "Unknown tablet action"), ar.invoked)
          ELSE LET action == ar.tabletActions[actionName]
               IN IF RoleChecked(action.role) /\ CheckAccessHTTP(r, action.role) # NoErr
                  THEN Applied(actionName, r, error(res, "Access denied"), ar.invoked)
                  ELSE \E ret \in MethodReturns :
                          Applied(actionName, r,
                                  IF ret.err # NoErr
                                  THEN error(res, ret.err)
                                  ELSE [res EXCEPT !.Output = ret.output],
                                  Append(ar.invoked, [method |-> action.method,
                                                      role |-> action.role,
                                                      err |-> ret.err]))
    /\ RepositoryFrame

RepositoryNext ==
    \/ \E name \in ActionNames, role \in Roles \cup {""}, method \in Methods :
          RegisterTabletAction(name, role, method)
    \/ \E actionName \in ActionNames, tabletAlias \in TabletAliases, r \in Requests :
          ApplyTabletAction(actionName, tabletAlias, r)

RepositorySpec == RepositoryInit /\ [][RepositoryNext]_vars

\* The methods invoked by the step.
Ran == SubSeq(ar'.invoked, Len(ar.invoked) + 1, Len(ar'.invoked))

\* What a call of ApplyTabletAction for an action registered as action, by
\* a request r, does.
AppliedAs(action, r) ==
    IF action.role # "" /\ action.role \notin r
    THEN /\ Ran = <<>>
         /\ ar'.result.Error
         /\ ar'.result.Output = "Access denied"
    ELSE /\ Len(Ran) = 1
         /\ Ran[1].method = action.method
         /\ ar'.result.Error <=> Ran[1].err # NoErr

\* C30: a call of ApplyTabletAction invokes the method of an action with a
\* role only for a request the role is granted to; a refused request gets
\* Error with Output 'Access denied' and no method runs; a name that is not
\* registered gets Error with Output 'Unknown tablet action' and no method
\* runs; otherwise the registered method runs once and Error is set
\* exactly when it returned an error.
C30_RoleGuardsMethod ==
    [][ar'.applied = ar.applied + 1 =>
          /\ SubSeq(ar'.invoked, 1, Len(ar.invoked)) = ar.invoked
          /\ ar'.result.Name = ar'.actionName
          /\ IF ar'.actionName \in DOMAIN ar.tabletActions
             THEN AppliedAs(ar.tabletActions[ar'.actionName], ar'.r)
             ELSE /\ Ran = <<>>
                  /\ ar'.result.Error
                  /\ ar'.result.Output = "Unknown tablet action"]_vars

\* The method of an action with a role ran for a request holding the role,
\* and the next request for the same action, without the role, was refused.
C30_Witness ==
    /\ ar.applied = 2
    /\ Len(ar.invoked) = 1
    /\ ar.invoked[1].role # ""
    /\ ar.actionName \in DOMAIN ar.tabletActions
    /\ ar.tabletActions[ar.actionName].role = ar.invoked[1].role
    /\ ar.invoked[1].role \notin ar.r
    /\ ar.result.Error
    /\ ar.result.Output = "Access denied"

====
